---------------------------- MODULE Spec2Model ----------------------------
(* Guardian lifecycle of mod-creature-capture (src/src/mod_creature_capture.cpp): *)
(* the per-owner slot registry, the spawned guardian instances, the durable    *)
(* character_guardian table and the handlers that keep them consistent.        *)
(* One owner is modelled; every handler of the module runs on the world thread *)
(* to completion, so each handler is one atomic action.                        *)
EXTENDS Integers, Sequences, FiniteSets, TLC

(***************************************************************************)
(* Program constants                                                       *)
(***************************************************************************)
MAX_GUARDIAN_SLOTS == 4
MAX_GUARDIAN_SPELLS == 8
ARCHETYPE_DPS == 0
ARCHETYPE_TANK == 1
ARCHETYPE_HEALER == 2
POWER_MANA == 0
POWER_RAGE == 1

(***************************************************************************)
(* Bounds of the model                                                     *)
(***************************************************************************)
\* number of guardian instances the world creates in one behaviour (GUIDs 1..MaxSpawns)
MaxSpawns == 2

Slots == 0 .. (MAX_GUARDIAN_SLOTS - 1)
SpellIdx == 1 .. MAX_GUARDIAN_SPELLS
Guids == 1 .. MaxSpawns

Min(a, b) == IF a < b THEN a ELSE b
Max(a, b) == IF a > b THEN a ELSE b

(***************************************************************************)
(* World data the module reads: creature templates, the player's level      *)
(***************************************************************************)
\* creature entries that have a template (sObjectMgr->GetCreatureTemplate)
Entries == {1, 2, 3}
\* the level of the owner (HandleSpawnCommand gives it to the guardian)
PlayerLevel == 5
\* template spell list of an entry (CreatureTemplate::spells)
TemplateSpells(entry) ==
    IF entry = 1 THEN <<0, 5, 0, 6, 0, 0, 0, 0>>
    ELSE IF entry = 2 THEN <<7, 0, 0, 0, 0, 0, 0, 0>>
    ELSE IF entry = 3 THEN <<24, 21, 25, 0, 0, 0, 0, 0>>
    ELSE <<0, 0, 0, 0, 0, 0, 0, 0>>
\* maximum health a fresh instance of a template has before the module scales it
TemplateMaxHealth(entry) == IF entry = 3 THEN 3 ELSE 2
TemplatePowerType(entry) == IF entry = 1 THEN POWER_MANA ELSE POWER_RAGE
TemplateMaxPower(entry) == 1
\* power a fresh instance starts with: full mana, no rage
TemplateSpawnPower(entry) == IF entry = 1 THEN 1 ELSE 0
TemplateDisplayId(entry) == 10 + entry

VARIABLES
    config,     \* CreatureCaptureConfig: maxSlots, healthPct
    phase,      \* the owner's session: "offline", "world", "transit" (between maps)
    slots,      \* CapturedGuardianData::slots
    db,         \* rows of character_guardian of this owner, by slot
    world,      \* the spawned guardian instances, by GUID
    nextGuid,   \* the next GUID the world hands out
    last,       \* the handler that ran last and what it reported
    targetInWorld, \* is the wild creature the owner last tried to capture still in the world
    ai          \* the controller (CapturedGuardianAI) whose spell casting is followed

vars == <<config, phase, slots, db, world, nextGuid, last, targetInWorld, ai>>

(***************************************************************************)
(* GuardianSlotData                                                        *)
(***************************************************************************)
NoSpells == [i \in SpellIdx |-> 0]

\* a default-constructed slot, which is also what Clear() leaves
EmptySlot ==
    [guardianGuid |-> 0, guardianEntry |-> 0, guardianLevel |-> 0,
     guardianHealth |-> 0, guardianPower |-> 0, guardianPowerType |-> 0,
     archetype |-> ARCHETYPE_DPS, spellSlots |-> NoSpells,
     displayId |-> 0, equipmentId |-> 0,
     dismissed |-> FALSE, savedToDb |-> FALSE]

\* a reset that leaves the handle
ClearKeepsHandle(s) == [EmptySlot EXCEPT !.guardianGuid = s.guardianGuid]
\* GuardianSlotData::Clear
Clear(s) == EmptySlot

IsOccupied(s) == s.guardianEntry # 0
IsActive(s) == s.guardianGuid # 0

\* CapturedGuardianData::FindEmptySlot: first index below maxSlots that is unoccupied, -1 if none
RECURSIVE FindEmptyFrom(_, _, _)
FindEmptyFrom(sl, i, maxSlots) ==
    IF i >= maxSlots THEN -1
    ELSE IF ~IsOccupied(sl[i]) THEN i
    ELSE FindEmptyFrom(sl, i + 1, maxSlots)

FindEmptySlot(sl, maxSlots) == FindEmptyFrom(sl, 0, maxSlots)

\* CapturedGuardianData::FindSlotByGuid
RECURSIVE FindGuidFrom(_, _, _)
FindGuidFrom(sl, i, guid) ==
    IF i >= MAX_GUARDIAN_SLOTS THEN -1
    ELSE IF sl[i].guardianGuid = guid THEN i
    ELSE FindGuidFrom(sl, i + 1, guid)

FindSlotByGuid(sl, guid) == IF guid = 0 THEN -1 ELSE FindGuidFrom(sl, 0, guid)

(***************************************************************************)
(* Guardian instances                                                      *)
(***************************************************************************)
\* no creature under this GUID
NoCreature ==
    [inWorld |-> FALSE, alive |-> FALSE, entry |-> 0, level |-> 0,
     health |-> 0, maxHealth |-> 0, power |-> 0, powerType |-> 0,
     displayId |-> 0, equipmentId |-> 0,
     aiArchetype |-> 0, aiSpells |-> NoSpells, aiSlotIndex |-> 0]

\* ObjectAccessor::GetCreature: does the GUID resolve to a creature of the map
Resolves(w, guid) == guid \in Guids /\ w[guid].inWorld

\* SummonCapturedGuardian: the instance it returns when the spawn succeeds
SummonCapturedGuardian(entry, level, archetype, spells, slotIndex, displayId, equipmentId) ==
    LET base == TemplateMaxHealth(entry)
        mh == IF config.healthPct # 100 THEN (base * config.healthPct) \div 100 ELSE base
    IN  [inWorld |-> TRUE, alive |-> TRUE, entry |-> entry, level |-> level,
         health |-> mh, maxHealth |-> mh,
         power |-> TemplateSpawnPower(entry), powerType |-> TemplatePowerType(entry),
         displayId |-> IF displayId # 0 THEN displayId ELSE TemplateDisplayId(entry),
         equipmentId |-> IF equipmentId > 0 THEN equipmentId ELSE 0,
         aiArchetype |-> archetype, aiSpells |-> spells, aiSlotIndex |-> slotIndex]

\* the health a respawned instance gets from the slot's snapshot
RestoredHealth(s, g) ==
    IF s.guardianHealth > 0 /\ s.guardianHealth <= g.maxHealth
    THEN s.guardianHealth ELSE g.health

\* the power a respawned instance gets from the slot's snapshot (SetPower clamps to the maximum)
RestoredPower(s, g) ==
    IF s.guardianPower > 0 /\ s.guardianPowerType = g.powerType
    THEN Min(s.guardianPower, TemplateMaxPower(g.entry)) ELSE g.power

\* a respawn that builds a default controller instead of the slot's
RespawnFromSlotDefaults(s, i) ==
    LET g == SummonCapturedGuardian(s.guardianEntry, s.guardianLevel, ARCHETYPE_DPS,
                                    NoSpells, i, s.displayId, s.equipmentId)
    IN  [g EXCEPT !.health = RestoredHealth(s, g), !.power = RestoredPower(s, g)]
\* respawn of a stored slot: SummonCapturedGuardian from the slot, then the snapshot restore
RespawnFromSlot(s, i) ==
    LET g == SummonCapturedGuardian(s.guardianEntry, s.guardianLevel, s.archetype,
                                    s.spellSlots, i, s.displayId, s.equipmentId)
    IN  [g EXCEPT !.health = RestoredHealth(s, g), !.power = RestoredPower(s, g)]

(***************************************************************************)
(* Persistence                                                             *)
(***************************************************************************)
Digit(d) == <<"0", "1", "2", "3", "4", "5", "6", "7", "8", "9">>[d + 1]

\* decimal text of a uint32, as operator<< writes it.  A uint32 of 2^31 or more is
\* held as the negative number congruent to it modulo 2^32 (see ToUint32), and
\* 2^32 = 429496729 * 10 + 6 gives its leading digits and its last digit
RECURSIVE ToText(_)
ToText(n) ==
    IF n < 0 THEN ToText(429496729 + ((n + 6) \div 10)) \o <<Digit((n + 6) % 10)>>
    ELSE IF n < 10 THEN <<Digit(n)>>
    ELSE ToText(n \div 10) \o <<Digit(n % 10)>>

\* SerializeSpells: the eight ids joined by commas
RECURSIVE SerializeFrom(_, _)
SerializeFrom(spells, i) ==
    IF i > MAX_GUARDIAN_SPELLS THEN <<>>
    ELSE (IF i > 1 THEN <<",">> ELSE <<>>) \o ToText(spells[i]) \o SerializeFrom(spells, i + 1)

SerializeSpells(spells) == SerializeFrom(spells, 1)

DigitValue(c) ==
    CASE c = "0" -> 0 [] c = "1" -> 1 [] c = "2" -> 2 [] c = "3" -> 3 [] c = "4" -> 4
      [] c = "5" -> 5 [] c = "6" -> 6 [] c = "7" -> 7 [] c = "8" -> 8 [] c = "9" -> 9
      [] OTHER -> -1

\* the vertical tab, character 11, written as the character itself
VerticalTab == ""

\* isspace in the C locale: space, \t, \n, vertical tab, \f, \r
IsSpace(c) == c \in {" ", "\t", "\n", VerticalTab, "\f", "\r"}

\* an unsigned long (64 bits) as four 16-bit limbs, lowest first: limbs * 10 + carry,
\* with the carry out of bit 64 as a fifth entry
RECURSIVE MulAdd(_, _)
MulAdd(limbs, carry) ==
    IF limbs = <<>> THEN <<carry>>
    ELSE LET x == Head(limbs) * 10 + carry
         IN  <<x % 65536>> \o MulAdd(Tail(limbs), x \div 65536)

\* the digits of strtoul: the value of the leading digits, ULONG_MAX once it overflows
RECURSIVE StrToULDigits(_, _, _)
StrToULDigits(tok, acc, over) ==
    IF tok = <<>> \/ DigitValue(Head(tok)) < 0
    THEN [limbs |-> IF over THEN <<65535, 65535, 65535, 65535>> ELSE acc, over |-> over]
    ELSE LET m == MulAdd(acc, DigitValue(Head(tok)))
         IN  StrToULDigits(Tail(tok), SubSeq(m, 1, 4), over \/ m[5] # 0)

\* static_cast<uint32> of the limbs lo + 65536 * hi.  The integers of the model are
\* 32 bits wide with a sign, so a uint32 of 2^31 or more is held as the negative
\* number congruent to it modulo 2^32: 4294967291 is held as -5
ToUint32(lo, hi) == IF hi >= 32768 THEN (hi - 65536) * 65536 + lo ELSE hi * 65536 + lo

\* strtoul(token, nullptr, 10) assigned to a uint32: leading white space is skipped,
\* a sign is accepted, the digits are read up to ULONG_MAX, a value after "-" is
\* negated as an unsigned long unless it overflowed, and the low 32 bits are kept;
\* 0 when no digit follows
RECURSIVE StrToUL(_)
StrToUL(tok) ==
    IF tok # <<>> /\ IsSpace(Head(tok)) THEN StrToUL(Tail(tok))
    ELSE LET signed == tok # <<>> /\ Head(tok) \in {"+", "-"}
             val == StrToULDigits(IF signed THEN Tail(tok) ELSE tok, <<0, 0, 0, 0>>, FALSE)
             lo == val.limbs[1]
             hi == val.limbs[2]
         IN  IF signed /\ Head(tok) = "-" /\ ~val.over
             THEN ToUint32((65536 - lo) % 65536,
                           (65535 - hi + (IF lo = 0 THEN 1 ELSE 0)) % 65536)
             ELSE ToUint32(lo, hi)

\* std::getline(iss, token, ','): the tokens of a string
RECURSIVE Tokens(_, _)
Tokens(str, cur) ==
    IF str = <<>> THEN (IF cur = <<>> THEN <<>> ELSE <<cur>>)
    ELSE IF Head(str) = "," THEN <<cur>> \o Tokens(Tail(str), <<>>)
    ELSE Tokens(Tail(str), Append(cur, Head(str)))

\* DeserializeSpells: zero the array, then the first MAX_GUARDIAN_SPELLS tokens
DeserializeSpells(str) ==
    LET toks == Tokens(str, <<>>)
    IN  [i \in SpellIdx |-> IF i <= Len(toks) THEN StrToUL(toks[i]) ELSE 0]

\* no row for (owner, slot)
NoRow ==
    [present |-> FALSE, entry |-> 0, level |-> 0, cur_health |-> 0, cur_power |-> 0,
     power_type |-> 0, archetype |-> 0, spells |-> <<>>, display_id |-> 0,
     equipment_id |-> 0, dismissed |-> 0]

\* the row SaveGuardianSlotToDb inserts
RowOf(s) ==
    [present |-> TRUE, entry |-> s.guardianEntry, level |-> s.guardianLevel,
     cur_health |-> s.guardianHealth, cur_power |-> s.guardianPower,
     power_type |-> s.guardianPowerType, archetype |-> s.archetype,
     spells |-> SerializeSpells(s.spellSlots), display_id |-> s.displayId,
     equipment_id |-> s.equipmentId, dismissed |-> IF s.dismissed THEN 1 ELSE 0]

\* SaveGuardianSlotToDb on the table: nothing for an unoccupied slot
SaveRow(d, s, i) == IF s.guardianEntry = 0 THEN d ELSE [d EXCEPT ![i] = RowOf(s)]
\* SaveGuardianSlotToDb on the slot: the dirty flag
SaveFlag(s) == IF s.guardianEntry = 0 THEN s ELSE [s EXCEPT !.savedToDb = TRUE]

\* LoadGuardiansFromDb without the dismissed column
LoadRowWithoutDismissed(s, r) ==
    [s EXCEPT !.guardianEntry = r.entry, !.guardianLevel = r.level,
              !.guardianHealth = r.cur_health, !.guardianPower = r.cur_power,
              !.guardianPowerType = r.power_type, !.archetype = r.archetype,
              !.spellSlots = DeserializeSpells(r.spells),
              !.displayId = r.display_id, !.equipmentId = r.equipment_id,
              !.savedToDb = TRUE]

\* one row of LoadGuardiansFromDb applied to a slot (guardianGuid is not a column)
LoadRow(s, r) ==
    [s EXCEPT !.guardianEntry = r.entry, !.guardianLevel = r.level,
              !.guardianHealth = r.cur_health, !.guardianPower = r.cur_power,
              !.guardianPowerType = r.power_type, !.archetype = r.archetype,
              !.spellSlots = DeserializeSpells(r.spells),
              !.displayId = r.display_id, !.equipmentId = r.equipment_id,
              !.dismissed = (r.dismissed # 0), !.savedToDb = TRUE]

\* a load of the records below the configured number of slots only
LoadGuardiansFromDbBelowMaxSlots(sl, d) ==
    [i \in Slots |-> IF d[i].present /\ i < config.maxSlots THEN LoadRow(sl[i], d[i]) ELSE sl[i]]

\* LoadGuardiansFromDb
LoadGuardiansFromDb(sl, d) ==
    [i \in Slots |-> IF d[i].present THEN LoadRow(sl[i], d[i]) ELSE sl[i]]

\* SnapshotGuardianSlot on one slot
SnapshotGuardianSlot(s, w) ==
    IF ~IsActive(s) \/ ~Resolves(w, s.guardianGuid) THEN s
    ELSE LET g == w[s.guardianGuid]
         IN  [s EXCEPT !.guardianEntry = g.entry, !.guardianLevel = g.level,
                       !.guardianHealth = g.health, !.guardianPowerType = g.powerType,
                       !.guardianPower = g.power, !.spellSlots = g.aiSpells]

\* DismissGuardianSlot: the slot afterwards
DismissGuardianSlot(s) == IF IsActive(s) THEN [s EXCEPT !.guardianGuid = 0] ELSE s

\* DespawnOrUnsummon of the creature a GUID resolves to
Despawn(w, guid) == IF Resolves(w, guid) THEN [w EXCEPT ![guid] = NoCreature] ELSE w


(***************************************************************************)
(* Inputs of the handlers                                                  *)
(***************************************************************************)
\* configuration values config.Load() may read: CreatureCapture.MaxSlots, CreatureCapture.HealthPct
ConfigSlotOptions == {0, 5}
ConfigHealthPcts == {50, 100}

\* capture rules left at their defaults
AllowElite == FALSE
AllowRare == TRUE
MaxLevelDiff == 5
MinCreatureLevel == 1

CREATURE_ELITE_NORMAL == 0
CREATURE_ELITE_ELITE == 1
CREATURE_ELITE_RAREELITE == 2
CREATURE_ELITE_WORLDBOSS == 3
CREATURE_ELITE_RARE == 4

\* a wild creature that can be captured, with the display of its template
GoodTarget(entry, level, equip) ==
    [exists |-> TRUE, alive |-> TRUE, summon |-> FALSE, player |-> FALSE, critter |-> FALSE,
     rank |-> CREATURE_ELITE_NORMAL, level |-> level, inCombatOther |-> FALSE, dist |-> 10,
     entry |-> entry, displayId |-> TemplateDisplayId(entry), equipmentId |-> equip]

\* the creatures the owner may have selected when capturing: one that can be
\* captured, and three that cannot: a dead one, one exactly 30 yards away and one
\* whose entry has no template
Targets ==
    { GoodTarget(1, PlayerLevel, 0),
      [GoodTarget(1, PlayerLevel, 0) EXCEPT !.alive = FALSE],
      [GoodTarget(1, PlayerLevel, 0) EXCEPT !.dist = 30],
      GoodTarget(9, PlayerLevel, 0) }

\* the entries the GM spawns: one with a template, one without
SpawnEntries == {1, 9}

\* CanCaptureCreature: "ok" or the first rule the target breaks
CanCaptureCreature(t) ==
    IF ~t.exists THEN "NoTarget"
    ELSE IF ~t.alive THEN "NotAlive"
    ELSE IF t.summon THEN "IsSummon"
    ELSE IF t.player THEN "IsPlayer"
    ELSE IF t.entry \notin Entries THEN "NoTemplate"
    ELSE IF t.critter THEN "IsCritter"
    ELSE IF t.rank \in {CREATURE_ELITE_ELITE, CREATURE_ELITE_WORLDBOSS, CREATURE_ELITE_RAREELITE}
            /\ ~AllowElite THEN "IsElite"
    ELSE IF t.rank = CREATURE_ELITE_RARE /\ ~AllowRare THEN "IsRare"
    ELSE IF t.level < MinCreatureLevel THEN "LevelTooLow"
    ELSE IF t.level - PlayerLevel > MaxLevelDiff THEN "LevelTooHigh"
    ELSE IF t.inCombatOther THEN "InCombat"
    ELSE IF ~(t.dist < 30) THEN "TooFar"
    ELSE "ok"

\* PopulateDefaultSpells: the non-zero template spells in order, zero-padded
RECURSIVE NonZero(_)
NonZero(seq) ==
    IF seq = <<>> THEN <<>>
    ELSE IF Head(seq) # 0 THEN <<Head(seq)>> \o NonZero(Tail(seq))
    ELSE NonZero(Tail(seq))

\* the template spells copied index by index, gaps kept
PopulateDefaultSpellsUncompacted(entry) ==
    [i \in SpellIdx |-> TemplateSpells(entry)[i]]

PopulateDefaultSpells(entry) ==
    LET nz == NonZero(TemplateSpells(entry))
    IN  [i \in SpellIdx |-> IF i <= Len(nz) THEN nz[i] ELSE 0]

Report(op, slot, result) == [op |-> op, slot |-> slot, result |-> result]

\* what a controller reads in one update about the owner, itself and the slots of
\* the owner: nothing read yet
NoEnv == [owner |-> "absent", ownerPct |-> 0, selfPct |-> 100, allies |-> <<>>]

\* no unit: the combat target of an idle guardian
NoTarget == [src |-> "none", slot |-> -1, idx |-> 0]

\* what one update reads of the guardian and of the world around it, here for a
\* living idle guardian at full health beside its owner, with nobody attacking:
\* diff is the time since the last update; victim, victimAlive and victimAttackable
\* are me->GetVictim(), its IsAlive() and me->CanCreatureAttack(it); ownerInWorld is
\* what _owner->IsInWorld() and ObjectAccessor::GetPlayer give; helper and
\* ownerVictim are _owner->getAttackerForHelper() and _owner->GetVictim(), "none" or
\* whether CanCreatureAttack accepts them; allyAttackers[i + 1] and selfAttackers list
\* the attackers of the guardian of slot i and of this guardian ("dead", "illegal"
\* or "legal"); threatList lists whom each unit of the threat list attacks;
\* allyArch is the archetype field of each slot of the owner, and allyDist the
\* distance from this guardian to the guardian of each slot
NoSituation ==
    [alive |-> TRUE, diff |-> 2000, ownerInWorld |-> TRUE, ownerDist |-> 3,
     victim |-> FALSE, victimAlive |-> TRUE, victimAttackable |-> TRUE,
     inRange |-> TRUE, targetAuras |-> {}, selfAuras |-> {}, allyAuras |-> {},
     health |-> 100, maxHealth |-> 100, mana |-> 0, maxMana |-> 0,
     helper |-> "none", ownerVictim |-> "none",
     allyAttackers |-> <<<<>>, <<>>, <<>>, <<>>>>, selfAttackers |-> <<>>,
     threatList |-> <<>>, allyArch |-> <<0, 0, 0, 0>>, allyDist |-> <<5, 5, 5, 5>>,
     following |-> TRUE]

\* no controller is followed
NoController ==
    [archetype |-> ARCHETYPE_DPS, spells |-> <<>>, cooldowns |-> <<>>, casting |-> FALSE,
     casts |-> {}, target |-> "none", env |-> NoEnv,
     owner |-> "null", inWorld |-> FALSE,
     updateTimer |-> 1000, combatCheckTimer |-> 500, regenTimer |-> 2000,
     sit |-> NoSituation, acts |-> {}, by |-> {}, victim |-> NoTarget, motion |-> "none",
     health |-> 0, mana |-> 0, threatAdded |-> <<>>, scanThreat |-> 0]

(***************************************************************************)
(* Initial state: server started, owner offline, nothing captured          *)
(***************************************************************************)
Init ==
    /\ config = [enabled |-> TRUE, maxSlots |-> 4, healthPct |-> 100]
    /\ phase = "offline"
    /\ slots = [i \in Slots |-> EmptySlot]
    /\ db = [i \in Slots |-> NoRow]
    /\ world = [g \in Guids |-> NoCreature]
    /\ nextGuid = 1
    /\ last = Report("init", -1, "ok")
    /\ targetInWorld = TRUE
    /\ ai = NoController

(***************************************************************************)
(* CreatureCaptureWorldScript::OnAfterConfigLoad -> CreatureCaptureConfig::Load *)
(***************************************************************************)
ConfigLoad(enableOpt, slotsOpt, pct) ==
    /\ config' = [enabled |-> enableOpt,
                  maxSlots |-> Max(1, Min(MAX_GUARDIAN_SLOTS, slotsOpt)), healthPct |-> pct]
    /\ last' = Report("ConfigLoad", -1, "ok")
    /\ UNCHANGED <<phase, slots, db, world, nextGuid, targetInWorld, ai>>

(***************************************************************************)
(* Capture: HandleCaptureCommand and TesseractItemScript::OnUse             *)
(***************************************************************************)
\* the slot a successful capture or GM spawn writes (dismissed and savedToDb are not assigned)
CapturedSlot(s, guid, g, entry, level, displayId, equipmentId, spells) ==
    [s EXCEPT !.guardianGuid = guid, !.guardianEntry = entry, !.guardianLevel = level,
              !.guardianHealth = g.health, !.guardianPowerType = g.powerType,
              !.guardianPower = g.power, !.archetype = ARCHETYPE_DPS,
              !.displayId = displayId, !.equipmentId = equipmentId,
              !.spellSlots = spells]

\* static_cast<int8>: the low eight bits as a signed number
ToInt8(n) == IF (n % 256) >= 128 THEN (n % 256) - 256 ELSE n % 256

\* byCommand: .capture (HandleCaptureCommand, refused while the module is disabled);
\* otherwise the use of the item on a selected creature (OnUse, which has no such test)
Capture(t, spawnOk, byCommand) ==
    /\ phase = "world"
    /\ LET verdict == CanCaptureCreature(t)
           emptySlot == FindEmptySlot(slots, config.maxSlots)
           capturedEquipmentId == ToInt8(t.equipmentId)
       IN  IF byCommand /\ ~config.enabled
           THEN /\ last' = Report("Capture", -1, "Disabled")
                /\ targetInWorld' = t.exists
                /\ UNCHANGED <<slots, db, world, nextGuid>>
           ELSE IF verdict # "ok"
           THEN /\ last' = Report("Capture", -1, verdict)
                /\ targetInWorld' = t.exists
                /\ UNCHANGED <<slots, db, world, nextGuid>>
           ELSE IF emptySlot < 0
           THEN /\ last' = Report("Capture", -1, "NoEmptySlot")
                /\ targetInWorld' = TRUE
                /\ UNCHANGED <<slots, db, world, nextGuid>>
           ELSE IF ~spawnOk
           THEN \* target->DespawnOrUnsummon() has run when the summon fails
                /\ last' = Report("Capture", emptySlot, "SpawnFailed")
                /\ targetInWorld' = FALSE
                /\ UNCHANGED <<slots, db, world, nextGuid>>
           ELSE LET spells == PopulateDefaultSpells(t.entry)
                    g == SummonCapturedGuardian(t.entry, t.level, ARCHETYPE_DPS, spells,
                                                emptySlot, t.displayId, capturedEquipmentId)
                    s == CapturedSlot(slots[emptySlot], nextGuid, g, t.entry, t.level,
                                      t.displayId, capturedEquipmentId, spells)
                IN  /\ nextGuid \in Guids
                    /\ world' = [world EXCEPT ![nextGuid] = g]
                    /\ nextGuid' = nextGuid + 1
                    /\ slots' = [slots EXCEPT ![emptySlot] = SaveFlag(s)]
                    /\ db' = SaveRow(db, s, emptySlot)
                    /\ last' = Report("Capture", emptySlot, "ok")
                    /\ targetInWorld' = FALSE
    /\ UNCHANGED <<config, phase, ai>>

(***************************************************************************)
(* HandleSpawnCommand (GM)                                                  *)
(***************************************************************************)
SpawnCommand(creatureEntry, spawnOk) ==
    /\ phase = "world"
    /\ LET emptySlot == FindEmptySlot(slots, config.maxSlots)
       IN  IF creatureEntry \notin Entries
           THEN /\ last' = Report("Spawn", -1, "NoTemplate")
                /\ UNCHANGED <<slots, db, world, nextGuid>>
           ELSE IF emptySlot < 0
           THEN /\ last' = Report("Spawn", -1, "NoEmptySlot")
                /\ UNCHANGED <<slots, db, world, nextGuid>>
           ELSE IF ~spawnOk
           THEN /\ last' = Report("Spawn", emptySlot, "SpawnFailed")
                /\ UNCHANGED <<slots, db, world, nextGuid>>
           ELSE LET spells == PopulateDefaultSpells(creatureEntry)
                    g == SummonCapturedGuardian(creatureEntry, PlayerLevel, ARCHETYPE_DPS,
                                                spells, emptySlot, 0, 0)
                    s == CapturedSlot(slots[emptySlot], nextGuid, g, creatureEntry,
                                      PlayerLevel, g.displayId, 0, spells)
                IN  /\ nextGuid \in Guids
                    /\ world' = [world EXCEPT ![nextGuid] = g]
                    /\ nextGuid' = nextGuid + 1
                    /\ slots' = [slots EXCEPT ![emptySlot] = SaveFlag(s)]
                    /\ db' = SaveRow(db, s, emptySlot)
                    /\ last' = Report("Spawn", emptySlot, "ok")
    /\ UNCHANGED <<config, phase, targetInWorld, ai>>

(***************************************************************************)
(* HandleDismissCommand: the guardian the owner has selected                *)
(***************************************************************************)
\* FindTargetedGuardianSlot: the selection must be a unit of the world
FindTargetedGuardianSlot(sl, w, sel) ==
    IF ~Resolves(w, sel) THEN -1 ELSE FindSlotByGuid(sl, sel)

DismissCommand(sel) ==
    /\ phase = "world"
    /\ LET slot == FindTargetedGuardianSlot(slots, world, sel)
       IN  IF slot < 0
           THEN /\ last' = Report("DismissCmd", -1, "NoTarget")
                /\ UNCHANGED <<slots, db, world>>
           ELSE IF ~IsActive(slots[slot])
           THEN /\ last' = Report("DismissCmd", slot, "NotActive")
                /\ UNCHANGED <<slots, db, world>>
           ELSE LET s1 == SnapshotGuardianSlot(slots[slot], world)
                    s2 == [DismissGuardianSlot(s1) EXCEPT !.dismissed = TRUE]
                IN  /\ world' = Despawn(world, slots[slot].guardianGuid)
                    /\ slots' = [slots EXCEPT ![slot] = SaveFlag(s2)]
                    /\ db' = SaveRow(db, s2, slot)
                    /\ last' = Report("DismissCmd", slot, "ok")
    /\ UNCHANGED <<config, phase, nextGuid, targetInWorld, ai>>

(***************************************************************************)
(* TesseractItemScript::OnGossipSelect                                      *)
(***************************************************************************)
TESSERACT_ACTION_SUMMON == 1
TESSERACT_ACTION_DISMISS == 2
TESSERACT_ACTION_INFO == 3
TESSERACT_ACTION_RELEASE == 4
TESSERACT_ACTION_CLOSE == 99

\* the slots the menu actions of the model address: every slot a guardian can
\* come to occupy within MaxSpawns, and one more
GossipSlots == 0 .. Min(MaxSpawns, MAX_GUARDIAN_SLOTS)

\* the encoded menu actions a client may send: slot * 10 + action, 0 and close,
\* and two whose slot number does not fit in eight bits
GossipActions ==
    {sl * 10 + a : sl \in GossipSlots,
                   a \in {TESSERACT_ACTION_SUMMON, TESSERACT_ACTION_DISMISS,
                          TESSERACT_ACTION_RELEASE}}
    \cup {0, TESSERACT_ACTION_INFO, TESSERACT_ACTION_CLOSE}
    \cup {2560 + TESSERACT_ACTION_SUMMON, 2560 + TESSERACT_ACTION_RELEASE}

\* a summon that leaves the dismissed flag as it was
SummonedSlotKeepsFlag(s, guid) == [s EXCEPT !.guardianGuid = guid]
\* the slot after a successful summon: the handle of the new instance, dismissed cleared
SummonedSlot(s, guid) == [s EXCEPT !.guardianGuid = guid, !.dismissed = FALSE]

\* case TESSERACT_ACTION_SUMMON
TesseractSummon(slot, spawnOk) ==
    LET s == slots[slot]
    IN  IF ~IsOccupied(s)
        THEN /\ last' = Report("Summon", slot, "Empty")
             /\ UNCHANGED <<slots, db, world, nextGuid>>
        ELSE IF IsActive(s)
        THEN /\ last' = Report("Summon", slot, "AlreadyActive")
             /\ UNCHANGED <<slots, db, world, nextGuid>>
        ELSE IF ~spawnOk
        THEN /\ last' = Report("Summon", slot, "SpawnFailed")
             /\ UNCHANGED <<slots, db, world, nextGuid>>
        ELSE LET g == RespawnFromSlot(s, slot)
                 s2 == SummonedSlot(s, nextGuid)
             IN  /\ nextGuid \in Guids
                 /\ world' = [world EXCEPT ![nextGuid] = g]
                 /\ nextGuid' = nextGuid + 1
                 /\ slots' = [slots EXCEPT ![slot] = SaveFlag(s2)]
                 /\ db' = SaveRow(db, s2, slot)
                 /\ last' = Report("Summon", slot, "ok")

\* a dismiss without the test that the slot is active
TesseractDismissUnguarded(slot) ==
    /\ slots' = [slots EXCEPT ![slot].guardianGuid = 0, ![slot].dismissed = TRUE]
    /\ last' = Report("Dismiss", slot, "NotFound")
    /\ UNCHANGED <<db, world, nextGuid, targetInWorld, ai>>
\* case TESSERACT_ACTION_DISMISS
TesseractDismiss(slot) ==
    LET s == slots[slot]
    IN  IF ~IsActive(s)
        THEN /\ last' = Report("Dismiss", slot, "NotActive")
             /\ UNCHANGED <<slots, db, world, nextGuid>>
        ELSE IF Resolves(world, s.guardianGuid) /\ world[s.guardianGuid].alive
        THEN LET s1 == SnapshotGuardianSlot(s, world)
                 s2 == [s1 EXCEPT !.guardianGuid = 0, !.dismissed = TRUE]
             IN  /\ world' = Despawn(world, s.guardianGuid)
                 /\ slots' = [slots EXCEPT ![slot] = SaveFlag(s2)]
                 /\ db' = SaveRow(db, s2, slot)
                 /\ last' = Report("Dismiss", slot, "ok")
                 /\ UNCHANGED nextGuid
        ELSE \* guardian missing or dead: the handle and the flag only, no despawn, no save
             /\ slots' = [slots EXCEPT ![slot] = [s EXCEPT !.guardianGuid = 0, !.dismissed = TRUE]]
             /\ last' = Report("Dismiss", slot, "NotFound")
             /\ UNCHANGED <<db, world, nextGuid>>

\* a delete that leaves the row
DeleteGuardianSlotFromDbKeepsRow(d, slot) == d
\* DeleteGuardianSlotFromDb
DeleteGuardianSlotFromDb(d, slot) == [d EXCEPT ![slot] = NoRow]

\* a release that leaves the dismissed flag of the slot
TesseractReleaseKeepsFlag(slot) ==
    LET s == slots[slot]
    IN  /\ world' = IF IsActive(s) THEN Despawn(world, s.guardianGuid) ELSE world
        /\ slots' = [slots EXCEPT ![slot] = [Clear(s) EXCEPT !.dismissed = s.dismissed]]
        /\ db' = DeleteGuardianSlotFromDb(db, slot)
        /\ last' = Report("Release", slot, "ok")
        /\ UNCHANGED nextGuid

\* case TESSERACT_ACTION_RELEASE
TesseractRelease(slot) ==
    LET s == slots[slot]
    IN  /\ world' = IF IsActive(s) THEN Despawn(world, s.guardianGuid) ELSE world
        /\ slots' = [slots EXCEPT ![slot] = Clear(s)]
        /\ db' = DeleteGuardianSlotFromDb(db, slot)
        /\ last' = Report("Release", slot, "ok")
        /\ UNCHANGED nextGuid

OnGossipSelect(action, spawnOk) ==
    /\ phase = "world"
    /\ LET \* uint8 slot = action / 10; uint8 localAction = action % 10
           slot == (action \div 10) % 256
           localAction == (action % 10) % 256
       IN  IF action = TESSERACT_ACTION_CLOSE \/ action = 0 \/ slot >= MAX_GUARDIAN_SLOTS
           THEN /\ last' = Report("Gossip", -1, "Closed")
                /\ UNCHANGED <<slots, db, world, nextGuid>>
           ELSE IF localAction = TESSERACT_ACTION_SUMMON THEN TesseractSummon(slot, spawnOk)
           ELSE IF localAction = TESSERACT_ACTION_DISMISS THEN TesseractDismiss(slot)
           ELSE IF localAction = TESSERACT_ACTION_RELEASE THEN TesseractRelease(slot)
           ELSE /\ last' = Report("Gossip", -1, "Closed")
                /\ UNCHANGED <<slots, db, world, nextGuid>>
    /\ UNCHANGED <<config, phase, targetInWorld, ai>>

(***************************************************************************)
(* CreatureCapturePlayerScript: teleport, map change, login, logout         *)
(***************************************************************************)
\* a teleport that clears the handle without taking the snapshot
TeleportSlotNoSnapshot(s, w, sameMap) ==
    IF ~IsActive(s) THEN s
    ELSE IF ~Resolves(w, s.guardianGuid) THEN [s EXCEPT !.guardianGuid = 0]
    ELSE IF sameMap THEN s
    ELSE [s EXCEPT !.guardianGuid = 0]
\* OnPlayerBeforeTeleport, the body of the loop for one slot
TeleportSlot(s, w, sameMap) ==
    IF ~IsActive(s) THEN s
    ELSE IF ~Resolves(w, s.guardianGuid) THEN [s EXCEPT !.guardianGuid = 0]
    ELSE IF sameMap THEN s
    ELSE [SnapshotGuardianSlot(s, w) EXCEPT !.guardianGuid = 0]

\* the instances OnPlayerBeforeTeleport despawns
TeleportDespawned(sl, w, sameMap) ==
    IF sameMap THEN {}
    ELSE {sl[i].guardianGuid : i \in {j \in Slots : IsActive(sl[j]) /\ Resolves(w, sl[j].guardianGuid)}}

OnPlayerBeforeTeleport(sameMap) ==
    /\ phase = "world"
    /\ slots' = [i \in Slots |-> TeleportSlot(slots[i], world, sameMap)]
    /\ world' = [g \in Guids |->
                   IF g \in TeleportDespawned(slots, world, sameMap) THEN NoCreature ELSE world[g]]
    /\ phase' = IF sameMap THEN "world" ELSE "transit"
    /\ last' = Report(IF sameMap THEN "TeleportSameMap" ELSE "TeleportCrossMap", -1, "ok")
    /\ UNCHANGED <<config, db, nextGuid, targetInWorld, ai>>

\* the respawn loops of OnPlayerMapChanged and OnPlayerLogin: slots i..limit-1 in order;
\* okSet holds the slots whose SummonCreature succeeds
RECURSIVE RespawnLoop(_, _, _, _, _, _, _)
RespawnLoop(i, limit, sl, w, ng, okSet, login) ==
    IF i >= limit THEN [sl |-> sl, w |-> w, ng |-> ng]
    ELSE LET s == sl[i]
             wanted == IF login THEN IsOccupied(s) /\ ~s.dismissed
                       ELSE IsOccupied(s) /\ ~IsActive(s)
         IN  IF wanted /\ i \in okSet /\ ng \in Guids
             THEN RespawnLoop(i + 1, limit,
                              [sl EXCEPT ![i] = [s EXCEPT !.guardianGuid = ng]],
                              [w EXCEPT ![ng] = RespawnFromSlot(s, i)],
                              ng + 1, okSet, login)
             ELSE RespawnLoop(i + 1, limit, sl, w, ng, okSet, login)

\* the slots a respawn loop tries to spawn
RespawnWanted(limit, sl, login) ==
    {i \in 0 .. (limit - 1) :
        IF login THEN IsOccupied(sl[i]) /\ ~sl[i].dismissed
        ELSE IsOccupied(sl[i]) /\ ~IsActive(sl[i])}

OnPlayerMapChanged(okSet) ==
    /\ phase = "transit"
    /\ okSet \subseteq RespawnWanted(MAX_GUARDIAN_SLOTS, slots, FALSE)
    /\ nextGuid + Cardinality(okSet) <= MaxSpawns + 1
    /\ LET r == RespawnLoop(0, MAX_GUARDIAN_SLOTS, slots, world, nextGuid, okSet, FALSE)
       IN  /\ slots' = r.sl
           /\ world' = r.w
           /\ nextGuid' = r.ng
    /\ phase' = "world"
    /\ last' = Report("MapChanged", -1, "ok")
    /\ UNCHANGED <<config, db, targetInWorld, ai>>

\* OnPlayerLogin: a new Player object, so the registry starts from default slots
\* while the module is disabled it returns before LoadGuardiansFromDb
OnPlayerLogin(okSet) ==
    /\ phase = "offline"
    /\ IF ~config.enabled
       THEN /\ slots' = [i \in Slots |-> EmptySlot]
            /\ last' = Report("Login", -1, "Disabled")
            /\ UNCHANGED <<world, nextGuid>>
       ELSE LET loaded == LoadGuardiansFromDb([i \in Slots |-> EmptySlot], db)
            IN  /\ okSet \subseteq RespawnWanted(config.maxSlots, loaded, TRUE)
                /\ nextGuid + Cardinality(okSet) <= MaxSpawns + 1
                /\ LET r == RespawnLoop(0, config.maxSlots, loaded, world, nextGuid, okSet, TRUE)
                   IN  /\ slots' = r.sl
                       /\ world' = r.w
                       /\ nextGuid' = r.ng
                /\ last' = Report("Login", -1, "ok")
    /\ phase' = "world"
    /\ UNCHANGED <<config, db, targetInWorld, ai>>

\* SaveAllGuardiansToDb
SaveAllGuardiansToDb(d, sl) ==
    [i \in Slots |-> IF IsOccupied(sl[i]) THEN RowOf(sl[i]) ELSE d[i]]

\* OnPlayerLogout: snapshot the active slots, save the occupied ones, DismissAllGuardians
OnPlayerLogout ==
    /\ phase \in {"world", "transit"}
    /\ LET snap == [i \in Slots |-> SnapshotGuardianSlot(slots[i], world)]
       IN  /\ db' = SaveAllGuardiansToDb(db, snap)
           /\ slots' = [i \in Slots |-> DismissGuardianSlot(SaveFlag(snap[i]))]
           /\ world' = [g \in Guids |->
                          IF \E i \in Slots : IsActive(slots[i]) /\ slots[i].guardianGuid = g
                          THEN NoCreature ELSE world[g]]
    /\ phase' = "offline"
    /\ last' = Report("Logout", -1, "ok")
    /\ UNCHANGED <<config, nextGuid, targetInWorld, ai>>

(***************************************************************************)
(* HandleTeachCommand / HandleUnlearnCommand                                *)
(***************************************************************************)
POWER_HEALTH == -2

\* sSpellMgr->GetSpellInfo: the abilities of the catalog
NoSpellInfo == [exists |-> FALSE, PowerType |-> 0, ManaCost |-> 0, ManaCostPercentage |-> 0]

SpellInfo(spellId) ==
    IF spellId \in {5, 6, 7}
    THEN [exists |-> TRUE, PowerType |-> POWER_MANA, ManaCost |-> 0, ManaCostPercentage |-> 0]
    ELSE IF spellId = 8
    THEN [exists |-> TRUE, PowerType |-> POWER_RAGE, ManaCost |-> 10, ManaCostPercentage |-> 0]
    ELSE IF spellId = 9
    THEN [exists |-> TRUE, PowerType |-> POWER_MANA, ManaCost |-> 10, ManaCostPercentage |-> 0]
    ELSE IF spellId = 10
    THEN [exists |-> TRUE, PowerType |-> POWER_MANA, ManaCost |-> 0, ManaCostPercentage |-> 5]
    ELSE IF spellId = 11
    THEN [exists |-> TRUE, PowerType |-> POWER_HEALTH, ManaCost |-> 10, ManaCostPercentage |-> 0]
    ELSE NoSpellInfo

\* the arguments of .capture teach / unlearn the model tries
TeachSlots == {0, 3}
TeachSpells == {8, 9}
UnlearnSlots == {1, 3}

\* only the flat cost is compared with the power type of the guardian
PowerCompatibleFlatCostOnly(info, g) ==
    ~(info.PowerType # POWER_HEALTH /\ info.ManaCost > 0 /\ info.PowerType # g.powerType)

\* the power-type checks of HandleTeachCommand
PowerCompatible(info, g) ==
    /\ ~(info.PowerType # POWER_HEALTH /\ info.ManaCost > 0 /\ info.PowerType # g.powerType)
    /\ ~(info.PowerType # POWER_HEALTH /\ info.ManaCostPercentage > 0 /\ info.PowerType # g.powerType)

\* the controller keeps its ability array
SetSpellIgnored(g, idx, spellId) == g

\* CapturedGuardianAI::SetSpell
SetSpell(g, idx, spellId) ==
    IF idx < MAX_GUARDIAN_SPELLS THEN [g EXCEPT !.aiSpells[idx + 1] = spellId] ELSE g

TeachCommand(sel, slot, spellId) ==
    /\ phase = "world"
    /\ LET guardianSlot == FindTargetedGuardianSlot(slots, world, sel)
       IN  IF guardianSlot < 0
           THEN /\ last' = Report("Teach", -1, "NoTarget")
                /\ UNCHANGED <<slots, db, world>>
           ELSE IF ~IsActive(slots[guardianSlot])
           THEN /\ last' = Report("Teach", guardianSlot, "NotActive")
                /\ UNCHANGED <<slots, db, world>>
           ELSE IF slot < 1 \/ slot > MAX_GUARDIAN_SPELLS
           THEN /\ last' = Report("Teach", guardianSlot, "InvalidIndex")
                /\ UNCHANGED <<slots, db, world>>
           ELSE IF ~Resolves(world, slots[guardianSlot].guardianGuid)
           THEN /\ last' = Report("Teach", guardianSlot, "NotFound")
                /\ UNCHANGED <<slots, db, world>>
           ELSE IF ~SpellInfo(spellId).exists
           THEN /\ last' = Report("Teach", guardianSlot, "NoSpell")
                /\ UNCHANGED <<slots, db, world>>
           ELSE IF ~PowerCompatible(SpellInfo(spellId), world[slots[guardianSlot].guardianGuid])
           THEN /\ last' = Report("Teach", guardianSlot, "WrongPower")
                /\ UNCHANGED <<slots, db, world>>
           ELSE LET guid == slots[guardianSlot].guardianGuid
                    s == [slots[guardianSlot] EXCEPT !.spellSlots[slot] = spellId]
                IN  /\ world' = [world EXCEPT ![guid] = SetSpell(world[guid], slot - 1, spellId)]
                    /\ slots' = [slots EXCEPT ![guardianSlot] = SaveFlag(s)]
                    /\ db' = SaveRow(db, s, guardianSlot)
                    /\ last' = Report("Teach", guardianSlot, "ok")
    /\ UNCHANGED <<config, phase, nextGuid, targetInWorld, ai>>

UnlearnCommand(sel, slot) ==
    /\ phase = "world"
    /\ LET guardianSlot == FindTargetedGuardianSlot(slots, world, sel)
       IN  IF guardianSlot < 0
           THEN /\ last' = Report("Unlearn", -1, "NoTarget")
                /\ UNCHANGED <<slots, db, world>>
           ELSE IF ~IsActive(slots[guardianSlot])
           THEN /\ last' = Report("Unlearn", guardianSlot, "NotActive")
                /\ UNCHANGED <<slots, db, world>>
           ELSE IF slot < 1 \/ slot > MAX_GUARDIAN_SPELLS
           THEN /\ last' = Report("Unlearn", guardianSlot, "InvalidIndex")
                /\ UNCHANGED <<slots, db, world>>
           ELSE IF ~Resolves(world, slots[guardianSlot].guardianGuid)
           THEN /\ last' = Report("Unlearn", guardianSlot, "NotFound")
                /\ UNCHANGED <<slots, db, world>>
           ELSE IF slots[guardianSlot].spellSlots[slot] = 0
           THEN /\ last' = Report("Unlearn", guardianSlot, "AlreadyEmpty")
                /\ UNCHANGED <<slots, db, world>>
           ELSE LET guid == slots[guardianSlot].guardianGuid
                    s == [slots[guardianSlot] EXCEPT !.spellSlots[slot] = 0]
                IN  /\ world' = [world EXCEPT ![guid] = SetSpell(world[guid], slot - 1, 0)]
                    /\ slots' = [slots EXCEPT ![guardianSlot] = SaveFlag(s)]
                    /\ db' = SaveRow(db, s, guardianSlot)
                    /\ last' = Report("Unlearn", guardianSlot, "ok")
    /\ UNCHANGED <<config, phase, nextGuid, targetInWorld, ai>>

(***************************************************************************)
(* CaptureGuardianGossipScript::CanCreatureGossipSelect: archetype choice   *)
(***************************************************************************)
GUARDIAN_ACTION_BASE == 100
GUARDIAN_ACTION_CLOSE == 199

\* the encoded actions the model tries: 100 + slot * 10 + archetype, and close
ArchetypeActions ==
    {GUARDIAN_ACTION_BASE + sl * 10 + a : sl \in 0 .. MAX_GUARDIAN_SLOTS, a \in 0 .. 3}
    \cup {GUARDIAN_ACTION_CLOSE}

\* the controller keeps its archetype
SetArchetypeIgnored(g, arch) == g

\* CapturedGuardianAI::SetArchetype
SetArchetype(g, arch) == [g EXCEPT !.aiArchetype = arch]

ArchetypeSelect(creature, action) ==
    /\ phase = "world"
    /\ Resolves(world, creature)
    /\ LET \* uint8 slot, uint8 newArchetype, of an action in 100 .. 199
           slot == ((action - GUARDIAN_ACTION_BASE) \div 10) % 256
           newArchetype == ((action - GUARDIAN_ACTION_BASE) % 10) % 256
       IN  IF ~config.enabled \/ action < GUARDIAN_ACTION_BASE \/ action > GUARDIAN_ACTION_CLOSE
           THEN /\ last' = Report("Archetype", -1, "NotHandled")
                /\ UNCHANGED <<slots, db, world>>
           ELSE IF action = GUARDIAN_ACTION_CLOSE
           THEN /\ last' = Report("Archetype", -1, "Closed")
                /\ UNCHANGED <<slots, db, world>>
           ELSE IF slot >= MAX_GUARDIAN_SLOTS \/ newArchetype > ARCHETYPE_HEALER
           THEN /\ last' = Report("Archetype", -1, "Invalid")
                /\ UNCHANGED <<slots, db, world>>
           ELSE IF ~IsActive(slots[slot]) \/ slots[slot].guardianGuid # creature
           THEN /\ last' = Report("Archetype", slot, "NotMine")
                /\ UNCHANGED <<slots, db, world>>
           ELSE IF slots[slot].archetype = newArchetype
           THEN /\ last' = Report("Archetype", slot, "AlreadySet")
                /\ UNCHANGED <<slots, db, world>>
           ELSE LET s == [slots[slot] EXCEPT !.archetype = newArchetype]
                IN  /\ world' = [world EXCEPT ![creature] = SetArchetype(world[creature], newArchetype)]
                    /\ slots' = [slots EXCEPT ![slot] = SaveFlag(s)]
                    /\ db' = SaveRow(db, s, slot)
                    /\ last' = Report("Archetype", slot, "ok")
    /\ UNCHANGED <<config, phase, nextGuid, targetInWorld, ai>>

(***************************************************************************)
(* What the world does to a guardian instance                               *)
(***************************************************************************)
\* a hit that leaves the guardian alive
GuardianDamaged(g) ==
    /\ world[g].inWorld /\ world[g].alive /\ world[g].health > 1
    /\ world' = [world EXCEPT ![g].health = @ - 1]
    /\ last' = Report("Damaged", -1, "ok")
    /\ UNCHANGED <<config, phase, slots, db, nextGuid, targetInWorld, ai>>

\* CapturedGuardianAI::JustDied: the guardian is killed; its corpse stays in the world
JustDied(g) ==
    /\ world[g].inWorld /\ world[g].alive
    /\ world' = [world EXCEPT ![g].alive = FALSE, ![g].health = 0]
    /\ last' = Report("Died", -1, "ok")
    /\ UNCHANGED <<config, phase, slots, db, nextGuid, targetInWorld, ai>>

\* Unit::GetHealthPct: the health as a percentage of the maximum, 0 without one
GetHealthPct(cr) == IF cr.maxHealth = 0 THEN 0 ELSE (cr.health * 100) \div cr.maxHealth

\* the mana pool of an instance: GetPower(POWER_MANA) and GetMaxPower(POWER_MANA),
\* both 0 for a creature whose power is not mana
ManaOf(cr) == IF cr.powerType = POWER_MANA THEN cr.power ELSE 0
MaxManaOf(cr) == IF cr.powerType = POWER_MANA THEN TemplateMaxPower(cr.entry) ELSE 0

\* the amount the regeneration adds to a pool: 6% of its maximum, at least 1
RegenAmount(maxValue) == Max(1, (maxValue * 6) \div 100)

\* the regeneration of UpdateAI on the instance: health, and mana for a guardian
\* with a mana pool
RegenerateInstance(cr) ==
    [cr EXCEPT !.health = IF cr.health < cr.maxHealth
                          THEN Min(cr.health + RegenAmount(cr.maxHealth), cr.maxHealth)
                          ELSE cr.health,
               !.power = IF MaxManaOf(cr) > 0 /\ ManaOf(cr) < MaxManaOf(cr)
                         THEN Min(ManaOf(cr) + RegenAmount(MaxManaOf(cr)), MaxManaOf(cr))
                         ELSE cr.power]

\* CapturedGuardianAI::UpdateAI, the update on which _updateTimer expires: ownerFound
\* is what the cached owner pointer and ObjectAccessor::GetPlayer give; without an
\* owner the guardian despawns and the update ends. idleRegen tells that the
\* guardian has no combat target and that _regenTimer expires in the same update:
\* the update then goes on to the regeneration
UpdateAIOwnerCheck(g, ownerFound, idleRegen) ==
    /\ world[g].inWorld /\ world[g].alive
    /\ IF ~ownerFound
       THEN /\ world' = [world EXCEPT ![g] = NoCreature]
            /\ last' = Report("OwnerCheck", -1, "SelfDespawn")
       ELSE IF idleRegen /\ RegenerateInstance(world[g]) # world[g]
       THEN /\ world' = [world EXCEPT ![g] = RegenerateInstance(world[g])]
            /\ last' = Report("OwnerCheck", -1, "Regenerated")
       ELSE UNCHANGED <<world, last>>
    /\ UNCHANGED <<config, phase, slots, db, nextGuid, targetInWorld, ai>>

(***************************************************************************)
(* CapturedGuardianAI: the casting steps of one controller                  *)
(***************************************************************************)
\* sSpellMgr->GetSpellInfo: what the casting steps read of an ability
NoTraits ==
    [exists |-> FALSE, positive |-> FALSE, heal |-> FALSE, aura |-> FALSE, damage |-> FALSE,
     periodic |-> FALSE, combat |-> FALSE, ranged |-> FALSE, castTime |-> FALSE,
     RecoveryTime |-> 0, CategoryRecoveryTime |-> 0, StartRecoveryTime |-> 0]

SpellTraits(spellId) ==
    LET known == [NoTraits EXCEPT !.exists = TRUE, !.combat = TRUE]
    IN  IF spellId = 21      \* a heal with a cast time and only a global cooldown
        THEN [known EXCEPT !.positive = TRUE, !.heal = TRUE, !.castTime = TRUE,
                           !.StartRecoveryTime = 1500]
        ELSE IF spellId = 22 \* a heal with a long cooldown of its own
        THEN [known EXCEPT !.positive = TRUE, !.heal = TRUE, !.RecoveryTime = 12000]
        ELSE IF spellId = 23 \* a ranged damage spell with a cast time
        THEN [known EXCEPT !.damage = TRUE, !.ranged = TRUE, !.castTime = TRUE,
                           !.StartRecoveryTime = 1500]
        ELSE IF spellId = 24 \* an instant strike with no cooldown in the catalog
        THEN [known EXCEPT !.damage = TRUE]
        ELSE IF spellId = 25 \* a buff with a category cooldown, not usable in combat
        THEN [known EXCEPT !.positive = TRUE, !.aura = TRUE, !.combat = FALSE,
                           !.CategoryRecoveryTime = 3000]
        ELSE IF spellId = 26 \* a damage-over-time debuff
        THEN [known EXCEPT !.aura = TRUE, !.periodic = TRUE, !.ranged = TRUE]
        ELSE NoTraits

CastCatalog == 21 .. 26

\* Creature::HasSpellCooldown and Creature::AddSpellCooldown, on the cooldown map
\* of the controller's creature: the time remaining, the duration committed by the
\* last cast and the time elapsed since, counted up to that duration
NoCooldown == [remaining |-> 0, committed |-> 0, elapsed |-> 0]
HasSpellCooldown(cd, spellId) == cd[spellId].remaining > 0
AddSpellCooldown(cd, spellId, cooldown) ==
    [cd EXCEPT ![spellId] = [remaining |-> cooldown, committed |-> cooldown, elapsed |-> 0]]

\* ApplySpellCooldown with only RecoveryTime: no floor for heals, no default
CooldownDurationRecoveryOnly(info, isHeal, r) == info.RecoveryTime

\* ApplySpellCooldown: the duration it computes, r being the value of urand(500, 1500)
\* (the recovery times of the catalog are far below the range of uint32)
CooldownDuration(info, isHeal, r) ==
    LET cooldown == info.RecoveryTime
    IN  IF isHeal /\ cooldown < 10000
        THEN 10000
        ELSE LET c1 == IF info.CategoryRecoveryTime > cooldown
                       THEN info.CategoryRecoveryTime ELSE cooldown
                 c2 == IF info.StartRecoveryTime > c1 THEN info.StartRecoveryTime ELSE c1
                 c3 == IF c2 = 0 THEN 2000 ELSE c2
             IN  c3 + r

\* ApplySpellCooldown treating every cast as a cast that is not a heal
ApplySpellCooldownNoHealFloor(cd, spellId, info, isHeal, r) ==
    AddSpellCooldown(cd, spellId, CooldownDuration(info, FALSE, r))

ApplySpellCooldown(cd, spellId, info, isHeal, r) ==
    LET cooldown == CooldownDuration(info, isHeal, r)
    IN  IF cooldown > 0 THEN AddSpellCooldown(cd, spellId, cooldown) ELSE cd

\* the first index of the ability array, in index order, among those of S
FirstIndex(S) == CHOOSE i \in S : \A j \in S : i <= j

\* me->CastSpell followed by ApplySpellCooldown
CastAndCool(c, spellId, isHeal, r) ==
    [c EXCEPT !.cooldowns = ApplySpellCooldown(c.cooldowns, spellId, SpellTraits(spellId), isHeal, r),
              !.casts = @ \cup {spellId},
              !.casting = SpellTraits(spellId).castTime]

\* a slot of the owner as the scans of the controller see it
AllySlot(kind) ==
    [active |-> kind # "inactive", me |-> kind = "me",
     resolves |-> kind \in {"dead", "hurt", "fine"}, alive |-> kind \in {"hurt", "fine"},
     pct |-> IF kind = "hurt" THEN 30 ELSE IF kind = "fine" THEN 90 ELSE 0]
AllyName(i) == <<"ally0", "ally1", "ally2", "ally3">>[i + 1]

\* the owner first
HealTargetSelfFirst(env) ==
    IF env.selfPct < 50 THEN "self"
    ELSE IF env.owner = "alive" /\ env.ownerPct < 50 THEN "owner"
    ELSE "none"

\* DoCastHealingSpells: the heal target
HealTarget(env) ==
    IF env.owner = "alive" /\ env.ownerPct < 50 THEN "owner"
    ELSE IF env.selfPct < 50 THEN "self"
    ELSE IF env.owner # "absent"
    THEN LET hurt == {i \in Slots :
                         LET s == AllySlot(env.allies[i + 1])
                         IN  s.active /\ ~s.me /\ s.resolves /\ s.alive /\ s.pct < 50}
         IN  IF hurt = {} THEN "none" ELSE AllyName(FirstIndex(hurt))
    ELSE "none"

\* DoCastHealingSpells; done is its return value
DoCastHealingSpells(c, env, r) ==
    IF c.casting THEN [c |-> c, done |-> FALSE]
    ELSE LET healTarget == HealTarget(env)
             ok == {i \in DOMAIN c.spells :
                       /\ c.spells[i] # 0
                       /\ SpellTraits(c.spells[i]).exists
                       /\ SpellTraits(c.spells[i]).positive /\ SpellTraits(c.spells[i]).heal
                       /\ ~HasSpellCooldown(c.cooldowns, c.spells[i])}
         IN  IF healTarget = "none" \/ ok = {} THEN [c |-> c, done |-> FALSE]
             ELSE [c |-> [CastAndCool(c, c.spells[FirstIndex(ok)], TRUE, r)
                             EXCEPT !.target = healTarget],
                   done |-> TRUE]

\* DoCastSelfBuffs
DoCastSelfBuffs(c, sit, r) ==
    IF c.casting THEN [c |-> c, done |-> FALSE]
    ELSE LET ok == {i \in DOMAIN c.spells :
                       /\ c.spells[i] # 0
                       /\ SpellTraits(c.spells[i]).exists
                       /\ SpellTraits(c.spells[i]).positive /\ ~SpellTraits(c.spells[i]).heal
                       /\ c.spells[i] \notin sit.selfAuras
                       /\ ~HasSpellCooldown(c.cooldowns, c.spells[i])}
         IN  IF ok = {} THEN [c |-> c, done |-> FALSE]
             ELSE [c |-> CastAndCool(c, c.spells[FirstIndex(ok)], FALSE, r), done |-> TRUE]

\* DoCastAllyBuffs: the allies are the living owner and the living guardians of the
\* other active slots that are within 30 yards (IsWithinDistInMap: nearer than 30);
\* all of them carry the auras sit.allyAuras
DoCastAllyBuffs(c, env, sit, r) ==
    IF c.casting \/ env.owner = "absent" THEN [c |-> c, done |-> FALSE]
    ELSE LET allies == {i \in Slots :
                           LET s == AllySlot(env.allies[i + 1])
                           IN  /\ s.active /\ ~s.me /\ s.resolves /\ s.alive
                               /\ sit.allyDist[i + 1] < 30}
             anyAlly == env.owner = "alive" \/ allies # {}
             ok == {i \in DOMAIN c.spells :
                       /\ c.spells[i] # 0
                       /\ SpellTraits(c.spells[i]).exists /\ SpellTraits(c.spells[i]).positive
                       /\ ~SpellTraits(c.spells[i]).heal
                       /\ SpellTraits(c.spells[i]).aura
                       /\ ~HasSpellCooldown(c.cooldowns, c.spells[i])
                       /\ anyAlly /\ c.spells[i] \notin sit.allyAuras}
         IN  IF ok = {} THEN [c |-> c, done |-> FALSE]
             ELSE [c |-> CastAndCool(c, c.spells[FirstIndex(ok)], FALSE, r), done |-> TRUE]

\* DoCastDebuffSpells
DoCastDebuffSpells(c, sit, r) ==
    IF c.casting \/ ~sit.victim THEN [c |-> c, done |-> FALSE]
    ELSE LET ok == {i \in DOMAIN c.spells :
                       /\ c.spells[i] # 0
                       /\ SpellTraits(c.spells[i]).exists /\ ~SpellTraits(c.spells[i]).positive
                       /\ ~SpellTraits(c.spells[i]).damage
                       /\ SpellTraits(c.spells[i]).aura
                       /\ c.spells[i] \notin sit.targetAuras
                       /\ ~HasSpellCooldown(c.cooldowns, c.spells[i])
                       /\ (SpellTraits(c.spells[i]).ranged => sit.inRange)}
         IN  IF ok = {} THEN [c |-> c, done |-> FALSE]
             ELSE [c |-> CastAndCool(c, c.spells[FirstIndex(ok)], FALSE, r), done |-> TRUE]

\* DoCastOffensiveSpells
DoCastOffensiveSpells(c, sit, r) ==
    IF c.casting \/ ~sit.victim THEN c
    ELSE LET ok == {i \in DOMAIN c.spells :
                       /\ c.spells[i] # 0
                       /\ SpellTraits(c.spells[i]).exists /\ SpellTraits(c.spells[i]).combat
                       /\ ~SpellTraits(c.spells[i]).positive
                       /\ ~HasSpellCooldown(c.cooldowns, c.spells[i])
                       /\ (SpellTraits(c.spells[i]).ranged => sit.inRange)
                       /\ ~(SpellTraits(c.spells[i]).periodic /\ c.spells[i] \in sit.targetAuras)}
         IN  IF ok = {} THEN c
             ELSE CastAndCool(c, c.spells[FirstIndex(ok)], FALSE, r)

\* the update record notes that a step ran (acts) and that a step cast (by)
Noting(c, act) == [c EXCEPT !.acts = @ \cup {act}]
CastBy(c, step) == [c EXCEPT !.by = @ \cup {step}]
\* DoMeleeAttackIfReady, then DoCastOffensiveSpells
MeleeAndOffensive(c, sit, r) ==
    LET m == Noting(c, "melee")
        o == DoCastOffensiveSpells(m, sit, r)
    IN  IF o.casts # m.casts THEN CastBy(o, "offensive") ELSE o

UpdateDpsAI(c, sit, r) == MeleeAndOffensive(c, sit, r)

\* the threat added for the owner only
TankThreatBonusOwnerOnly(env, sit, victim) ==
    IF victim = "owner" THEN 50 ELSE 0

\* UpdateTankAI, the threat added to one unit of the threat list that attacks
\* victim: 50 for the owner, 80 for the guardian of an active slot other than the
\* tank's whose archetype field is healer
TankThreatBonus(env, sit, victim) ==
    IF victim = "none" THEN 0
    ELSE IF victim = "owner" THEN 50
    ELSE IF \E i \in Slots :
               /\ AllySlot(env.allies[i + 1]).active /\ ~AllySlot(env.allies[i + 1]).me
               /\ sit.allyArch[i + 1] = ARCHETYPE_HEALER
               /\ victim = AllyName(i)
         THEN 80
    ELSE 0

\* UpdateTankAI: the basic attack, the threat added, the self buff, then the
\* offensive spell of the same update
UpdateTankAI(c, sit, r, r2) ==
    LET m == Noting(c, "melee")
        th == IF c.owner = "set"
              THEN [m EXCEPT !.threatAdded =
                       [k \in DOMAIN sit.threatList |->
                           TankThreatBonus(c.env, sit, sit.threatList[k])]]
              ELSE m
        b == DoCastSelfBuffs(th, sit, r)
        b2 == IF b.done THEN CastBy(b.c, "selfbuff") ELSE b.c
        o == DoCastOffensiveSpells(b2, sit, r2)
    IN  IF o.casts # b2.casts THEN CastBy(o, "offensive") ELSE o

\* UpdateHealerAI without the returns of the first three steps
UpdateHealerAINoReturn(c, env, sit, r) ==
    LET h == DoCastHealingSpells(c, env, r)
        h2 == IF h.done THEN CastBy(h.c, "heal") ELSE h.c
        b == DoCastSelfBuffs(h2, sit, r)
        b2 == IF b.done THEN CastBy(b.c, "selfbuff") ELSE b.c
        a == DoCastAllyBuffs(b2, env, sit, r)
        a2 == IF a.done THEN CastBy(a.c, "allybuff") ELSE a.c
        d == DoCastDebuffSpells(a2, sit, r)
    IN  IF d.done THEN CastBy(d.c, "debuff") ELSE MeleeAndOffensive(a2, sit, r)

\* UpdateHealerAI: the first step that casts ends the update
UpdateHealerAI(c, env, sit, r) ==
    LET h == DoCastHealingSpells(c, env, r)
        b == DoCastSelfBuffs(c, sit, r)
        a == DoCastAllyBuffs(c, env, sit, r)
        d == DoCastDebuffSpells(c, sit, r)
    IN  IF h.done THEN CastBy(h.c, "heal")
        ELSE IF b.done THEN CastBy(b.c, "selfbuff")
        ELSE IF a.done THEN CastBy(a.c, "allybuff")
        ELSE IF d.done THEN CastBy(d.c, "debuff")
        ELSE MeleeAndOffensive(c, sit, r)

GUARDIAN_FOLLOW_DIST == 3
HEALER_FOLLOW_DIST == 12
GetFollowDist(archetype) ==
    IF archetype = ARCHETYPE_HEALER THEN HEALER_FOLLOW_DIST ELSE GUARDIAN_FOLLOW_DIST

\* the combat target the guardian had when the update began
CurrentTarget == [src |-> "current", slot |-> -1, idx |-> 0]

\* AttackStart: me->Attack takes a target that CanCreatureAttack accepts
AttackStart(c, target, legal) ==
    IF ~legal THEN c
    ELSE [Noting(c, "engage") EXCEPT !.victim = target, !.motion = "chase"]

\* the first attacker of a list that is alive and that CanCreatureAttack accepts
FirstLegal(attackers) ==
    LET ok == {k \in DOMAIN attackers : attackers[k] = "legal"}
    IN  IF ok = {} THEN 0 ELSE CHOOSE k \in ok : \A m \in ok : k <= m

\* the scan reading the attackers of every active slot but the guardian's own
FindAllyAttackerUnresolved(env, sit) ==
    LET found == {i \in Slots :
                     LET s == AllySlot(env.allies[i + 1])
                     IN  /\ s.active /\ ~s.me
                         /\ FirstLegal(sit.allyAttackers[i + 1]) # 0}
    IN  IF found = {} THEN NoTarget
        ELSE [src |-> "ally", slot |-> FirstIndex(found),
              idx |-> FirstLegal(sit.allyAttackers[FirstIndex(found) + 1])]

\* FindAllyAttacker: the slots in order, skipping the inactive ones, the
\* guardian's own and those whose guardian is missing or dead
FindAllyAttacker(env, sit) ==
    LET found == {i \in Slots :
                     LET s == AllySlot(env.allies[i + 1])
                     IN  /\ s.active /\ ~s.me /\ s.resolves /\ s.alive
                         /\ FirstLegal(sit.allyAttackers[i + 1]) # 0}
    IN  IF found = {} THEN NoTarget
        ELSE [src |-> "ally", slot |-> FirstIndex(found),
              idx |-> FirstLegal(sit.allyAttackers[FirstIndex(found) + 1])]

\* the scan taking the owner's target before the owner's attacker
ThreatScanOwnerTargetFirst(c, env, sit) ==
    IF sit.ownerVictim = "legal"
    THEN AttackStart(c, [src |-> "ownerVictim", slot |-> -1, idx |-> 0], TRUE)
    ELSE IF sit.helper = "legal"
    THEN AttackStart([c EXCEPT !.scanThreat = IF c.archetype = ARCHETYPE_TANK THEN 200 ELSE 0],
                     [src |-> "helper", slot |-> -1, idx |-> 0], TRUE)
    ELSE c

\* the scan of UpdateAI for a unit to attack, for a guardian whose _owner is set
ThreatScan(c, env, sit) ==
    IF sit.helper = "legal"
    THEN AttackStart([c EXCEPT !.scanThreat = IF c.archetype = ARCHETYPE_TANK THEN 200 ELSE 0],
                     [src |-> "helper", slot |-> -1, idx |-> 0], TRUE)
    ELSE IF sit.ownerVictim = "legal"
    THEN AttackStart(c, [src |-> "ownerVictim", slot |-> -1, idx |-> 0], TRUE)
    ELSE IF FindAllyAttacker(env, sit) # NoTarget
    THEN AttackStart(c, FindAllyAttacker(env, sit), TRUE)
    ELSE IF FirstLegal(sit.selfAttackers) # 0
    THEN AttackStart([c EXCEPT !.scanThreat = 100],
                     [src |-> "self", slot |-> -1, idx |-> FirstLegal(sit.selfAttackers)], TRUE)
    ELSE c

\* the regeneration of UpdateAI: health, and mana for a guardian with a mana pool
Regenerate(c, sit) ==
    [c EXCEPT !.health = IF sit.health < sit.maxHealth
                         THEN Min(sit.health + RegenAmount(sit.maxHealth), sit.maxHealth)
                         ELSE sit.health,
              !.mana = IF sit.maxMana > 0 /\ sit.mana < sit.maxMana
                       THEN Min(sit.mana + RegenAmount(sit.maxMana), sit.maxMana)
                       ELSE sit.mana]

\* UpdateAI, the branch of a guardian without a combat target: regeneration, the
\* scan (which ends the update when it engages), the heal of a wounded owner by
\* an idle healer, and the return to following
OutOfCombat(c, env, sit, r) ==
    LET tr == c.regenTimer - sit.diff
        c3 == IF tr <= 0 THEN Regenerate(Noting([c EXCEPT !.regenTimer = 2000], "regen"), sit)
              ELSE [c EXCEPT !.regenTimer = tr]
        tc == c.combatCheckTimer - sit.diff
        c4 == IF tc <= 0 THEN [c3 EXCEPT !.combatCheckTimer = 500]
              ELSE [c3 EXCEPT !.combatCheckTimer = tc]
        scanned == ThreatScan(Noting(c4, "scan"), env, sit)
        h == DoCastHealingSpells(scanned, env, r)
        c5 == IF tc <= 0 /\ c.owner = "set"
              THEN IF /\ c.archetype = ARCHETYPE_HEALER
                      /\ env.owner = "alive" /\ env.ownerPct < 80
                   THEN (IF h.done THEN CastBy(h.c, "heal") ELSE h.c)
                   ELSE scanned
              ELSE c4
    IN  IF tc <= 0 /\ c.owner = "set" /\ scanned.victim # NoTarget THEN scanned
        ELSE IF c.owner = "set"
        THEN [(IF sit.following THEN c5 ELSE Noting(c5, "follow")) EXCEPT !.motion = "follow"]
        ELSE c5

\* the branch without the leash of 40
InCombatNoLeash(c, env, sit, dist, r, r2) ==
    IF ~sit.victimAlive \/ ~sit.victimAttackable
    THEN [Noting(c, "disengage") EXCEPT !.victim = NoTarget,
                                        !.motion = IF c.owner = "set" THEN "follow" ELSE "none"]
    ELSE IF c.archetype = ARCHETYPE_TANK THEN UpdateTankAI(Noting(c, "tank"), sit, r, r2)
    ELSE IF c.archetype = ARCHETYPE_HEALER THEN UpdateHealerAI(Noting(c, "healer"), env, sit, r)
    ELSE UpdateDpsAI(Noting(c, "dps"), sit, r)

\* UpdateAI, the branch of a guardian with a combat target: disengage, or the
\* routine of the archetype; dist is the distance to the owner
InCombat(c, env, sit, dist, r, r2) ==
    IF \/ ~sit.victimAlive
       \/ ~sit.victimAttackable
       \/ (c.owner = "set" /\ dist > 40)
    THEN [Noting(c, "disengage") EXCEPT !.victim = NoTarget,
                                        !.motion = IF c.owner = "set" THEN "follow" ELSE "none"]
    ELSE IF c.archetype = ARCHETYPE_TANK THEN UpdateTankAI(Noting(c, "tank"), sit, r, r2)
    ELSE IF c.archetype = ARCHETYPE_HEALER THEN UpdateHealerAI(Noting(c, "healer"), env, sit, r)
    ELSE UpdateDpsAI(Noting(c, "dps"), sit, r)

\* UpdateAI without the owner check
TickNoDespawn(a, env, sit, r, r2) ==
    LET c0 == [a EXCEPT !.casts = {}, !.target = "none", !.sit = sit, !.acts = {}, !.by = {},
                        !.threatAdded = <<>>, !.scanThreat = 0,
                        !.health = sit.health, !.mana = sit.mana, !.env = env,
                        !.victim = IF ~sit.victim THEN NoTarget
                                   ELSE IF a.victim = NoTarget THEN CurrentTarget ELSE a.victim]
    IN  IF sit.victim THEN InCombat(c0, env, sit, sit.ownerDist, r, r2)
        ELSE OutOfCombat(c0, env, sit, r)

\* UpdateAI of the controller a: the owner check and the teleport of a guardian more
\* than 50 from its owner when _updateTimer expires, then one of the two branches.
\* The record keeps what the update read (env, sit) and what it did: acts, by,
\* casts, target, threatAdded, scanThreat, victim, motion, health, mana.
Tick(a, env, sit, r, r2) ==
    LET c0 == [a EXCEPT !.casts = {}, !.target = "none", !.sit = sit, !.acts = {}, !.by = {},
                        !.threatAdded = <<>>, !.scanThreat = 0,
                        !.health = sit.health, !.mana = sit.mana,
                        !.victim = IF ~sit.victim THEN NoTarget
                                   ELSE IF a.victim = NoTarget THEN CurrentTarget ELSE a.victim]
        t == a.updateTimer - sit.diff
        lookup == t <= 0 /\ (a.owner = "null" \/ ~sit.ownerInWorld)
        owner1 == IF lookup THEN (IF sit.ownerInWorld THEN "set" ELSE "null") ELSE a.owner
        seen == IF owner1 = "null" THEN [env EXCEPT !.owner = "absent"] ELSE env
        c1 == [c0 EXCEPT !.updateTimer = IF t <= 0 THEN 1000 ELSE t, !.owner = owner1,
                         !.env = seen]
        teleport == t <= 0 /\ owner1 = "set" /\ sit.ownerDist > 50
        c2 == IF teleport THEN Noting(c1, "teleport") ELSE c1
        dist == IF teleport THEN GetFollowDist(a.archetype) ELSE sit.ownerDist
    IN  IF ~sit.alive THEN [c0 EXCEPT !.env = env]
        ELSE IF lookup /\ owner1 = "null"
        THEN [Noting(c1, "despawn") EXCEPT !.inWorld = FALSE]
        ELSE IF sit.victim THEN InCombat(c2, seen, sit, dist, r, r2)
        ELSE OutOfCombat(c2, seen, sit, r)

\* CapturedGuardianAI::UpdateAI(diff) of a guardian in the world; the owner read
\* through _owner is dead or alive
UpdateAI(env, sit, r, r2) ==
    /\ ai.inWorld
    /\ env.owner # "absent"
    /\ ai' = Tick(ai, env, sit, r, r2)
    /\ UNCHANGED <<config, phase, slots, db, world, nextGuid, last, targetInWorld>>

\* the controller when the engine calls one of its overrides between two updates:
\* what the last update did is over
Called(c) ==
    [c EXCEPT !.casts = {}, !.target = "none", !.acts = {"called"}, !.by = {},
              !.threatAdded = <<>>, !.scanThreat = 0]

\* the unit the engine hands to AttackStart
EngineTarget == [src |-> "engine", slot |-> -1, idx |-> 0]

\* CapturedGuardianAI::AttackStart(target) called by the engine between two updates;
\* legal as in AttackStart above
EngineAttackStart(legal) ==
    /\ ai.inWorld
    /\ ai' = AttackStart(Called(ai), EngineTarget, legal)
    /\ UNCHANGED <<config, phase, slots, db, world, nextGuid, last, targetInWorld>>

\* CapturedGuardianAI::EnterEvadeMode called by the engine between two updates: the
\* guardian stops attacking, clears its movement and follows its owner if it has one
EnterEvadeMode ==
    /\ ai.inWorld
    /\ ai' = [Noting(Called(ai), "evade") EXCEPT
                 !.victim = NoTarget,
                 !.motion = IF ai.owner = "set" THEN "follow" ELSE "none"]
    /\ UNCHANGED <<config, phase, slots, db, world, nextGuid, last, targetInWorld>>

\* the world clock advances by diff: every cooldown counts down and stops at zero
ElapseTime(diff) ==
    /\ ai.spells # <<>>
    /\ \E sp \in CastCatalog : ai.cooldowns[sp].remaining > 0
    /\ ai' = [ai EXCEPT !.cooldowns =
                 [sp \in CastCatalog |->
                     [remaining |-> Max(0, ai.cooldowns[sp].remaining - diff),
                      committed |-> ai.cooldowns[sp].committed,
                      elapsed |-> Min(ai.cooldowns[sp].committed,
                                      ai.cooldowns[sp].elapsed + diff)]]]
    /\ UNCHANGED <<config, phase, slots, db, world, nextGuid, last, targetInWorld>>

\* the cast in progress ends (UNIT_STATE_CASTING is cleared)
CastFinished ==
    /\ ai.casting
    /\ ai' = [ai EXCEPT !.casting = FALSE]
    /\ UNCHANGED <<config, phase, slots, db, world, nextGuid, last, targetInWorld>>

(***************************************************************************)
(* The lifecycle specification: the handlers of the slot registry under the *)
(* default configuration, and the death and self-despawn of guardians        *)
(***************************************************************************)
CaptureStep == \E t \in Targets, ok \in BOOLEAN, cmd \in BOOLEAN : Capture(t, ok, cmd)
SpawnStep == \E e \in SpawnEntries, ok \in BOOLEAN : SpawnCommand(e, ok)
DismissCommandStep == \E sel \in 0 .. MaxSpawns : DismissCommand(sel)
GossipStep ==
    \E a \in GossipActions :
        \E ok \in (IF a % 10 = TESSERACT_ACTION_SUMMON THEN BOOLEAN ELSE {TRUE}) :
            OnGossipSelect(a, ok)
TeleportStep == \E same \in BOOLEAN : OnPlayerBeforeTeleport(same)
MapChangedStep == \E okSet \in SUBSET Slots : OnPlayerMapChanged(okSet)
LoginStep == \E okSet \in SUBSET Slots : OnPlayerLogin(okSet)
DiedStep == \E g \in Guids : JustDied(g)
DamagedStep == \E g \in Guids : GuardianDamaged(g)
OwnerCheckStep ==
    \E g \in Guids, found \in BOOLEAN, idleRegen \in BOOLEAN :
        UpdateAIOwnerCheck(g, found, idleRegen)

Next ==
    \/ CaptureStep
    \/ SpawnStep
    \/ DismissCommandStep
    \/ GossipStep
    \/ TeleportStep
    \/ MapChangedStep
    \/ LoginStep
    \/ OnPlayerLogout
    \/ DiedStep
    \/ OwnerCheckStep
    \/ DamagedStep

Spec == Init /\ [][Next]_vars

(***************************************************************************)
(* The slot cap: capture, GM spawn, release and login under reloads of      *)
(* CreatureCapture.MaxSlots                                                 *)
(***************************************************************************)
MaxSlotsStep == \E o \in ConfigSlotOptions : ConfigLoad(TRUE, o, 100)
\* a reload that switches the module off or on (CreatureCapture.Enable)
EnableStep == \E e \in BOOLEAN : ConfigLoad(e, 4, 100)

NextConfig ==
    \/ MaxSlotsStep
    \/ EnableStep
    \/ CaptureStep
    \/ SpawnStep
    \/ GossipStep
    \/ LoginStep
    \/ OnPlayerLogout

SpecConfig == Init /\ [][NextConfig]_vars

(***************************************************************************)
(* Snapshot and restore: dismiss, summon and the automatic respawns under   *)
(* reloads of CreatureCapture.HealthPct                                     *)
(***************************************************************************)
HealthPctStep == \E pct \in ConfigHealthPcts : ConfigLoad(TRUE, 5, pct)

\* TesseractItemScript::OnUse, the menu it builds: dismiss for an active slot, summon
\* for a stored one, release for every occupied one, below maxSlots
MenuActions ==
    {i * 10 + TESSERACT_ACTION_DISMISS :
        i \in {j \in 0 .. (config.maxSlots - 1) : IsOccupied(slots[j]) /\ IsActive(slots[j])}}
    \cup {i * 10 + TESSERACT_ACTION_SUMMON :
        i \in {j \in 0 .. (config.maxSlots - 1) : IsOccupied(slots[j]) /\ ~IsActive(slots[j])}}
    \cup {i * 10 + TESSERACT_ACTION_RELEASE :
        i \in {j \in 0 .. (config.maxSlots - 1) : IsOccupied(slots[j])}}

\* the owner picks an item of the menu just built, and the spawn succeeds
MenuStep == \E a \in MenuActions : OnGossipSelect(a, TRUE)
\* the owner captures a creature that can be captured, and the spawn succeeds
CaptureGoodStep == \E cmd \in BOOLEAN : Capture(GoodTarget(1, PlayerLevel, 0), TRUE, cmd)
\* the owner has one of the active guardians selected
SelectedGuardians == {slots[i].guardianGuid : i \in {j \in Slots : IsActive(slots[j])}}
DismissSelectedStep == \E sel \in SelectedGuardians : DismissCommand(sel)
\* every spawn of the respawn loop succeeds
MapChangedAllStep == OnPlayerMapChanged(RespawnWanted(MAX_GUARDIAN_SLOTS, slots, FALSE))
LoginAllStep ==
    OnPlayerLogin(RespawnWanted(config.maxSlots,
                                LoadGuardiansFromDb([i \in Slots |-> EmptySlot], db), TRUE))

NextRestore ==
    \/ HealthPctStep
    \/ CaptureGoodStep
    \/ DismissSelectedStep
    \/ MenuStep
    \/ OnPlayerBeforeTeleport(FALSE)
    \/ MapChangedAllStep
    \/ LoginAllStep
    \/ OnPlayerLogout
    \/ DiedStep
    \/ DamagedStep

SpecRestore == Init /\ [][NextRestore]_vars

(***************************************************************************)
(* Archetype and abilities: teach, unlearn and the archetype menu between   *)
(* capture, dismiss and summon                                              *)
(***************************************************************************)
\* the owner has one of the active guardians selected
TeachStep ==
    \E sel \in SelectedGuardians, slot \in TeachSlots, sp \in TeachSpells :
        TeachCommand(sel, slot, sp)
UnlearnStep == \E sel \in SelectedGuardians, slot \in UnlearnSlots : UnlearnCommand(sel, slot)
\* the archetype menu of a guardian offers the actions of its own slot, and close
ArchetypeStep ==
    \E i \in Slots :
        \E a \in {GUARDIAN_ACTION_BASE + i * 10 + k : k \in {ARCHETYPE_DPS, ARCHETYPE_HEALER}}
                   \cup {GUARDIAN_ACTION_CLOSE, GUARDIAN_ACTION_CLOSE + 1} :
            ArchetypeSelect(slots[i].guardianGuid, a)

NextAbility ==
    \/ CaptureGoodStep
    \/ TeachStep
    \/ UnlearnStep
    \/ ArchetypeStep
    \/ DismissSelectedStep
    \/ MenuStep
    \/ LoginAllStep

SpecAbility == Init /\ [][NextAbility]_vars

(***************************************************************************)
(* Teaching: .capture teach / unlearn on rage guardians, with every kind of  *)
(* ability of the catalog and indices inside and outside                     *)
(* 1..MAX_GUARDIAN_SPELLS                                                    *)
(***************************************************************************)
\* the arguments of .capture teach / unlearn tried here
TeachIndices == {0, 3, 9}
TeachCatalog == {5, 8, 9, 10, 11, 99}
\* what the owner has selected: nothing (0) or a GUID, spawned or not
Selections == 0 .. MaxSpawns

\* teach commands: every ability at a valid index of a guardian that is found, one
\* ability at the invalid indices, one command for each selection that is not found
TeachInputs ==
    {in \in Selections \X TeachIndices \X TeachCatalog :
        /\ in[2] = 3 \/ in[3] = 8
        /\ Resolves(world, in[1]) \/ (in[2] = 3 /\ in[3] = 8)}
UnlearnInputs ==
    {in \in Selections \X TeachIndices : Resolves(world, in[1]) \/ in[2] = 3}

CaptureRageStep == Capture(GoodTarget(2, PlayerLevel, 0), TRUE, TRUE)
TeachAnyStep == \E in \in TeachInputs : TeachCommand(in[1], in[2], in[3])
UnlearnAnyStep == \E in \in UnlearnInputs : UnlearnCommand(in[1], in[2])

NextTeach ==
    \/ LoginAllStep
    \/ CaptureRageStep
    \/ TeachAnyStep
    \/ UnlearnAnyStep
    \/ DismissSelectedStep

SpecTeach == Init /\ [][NextTeach]_vars

(***************************************************************************)
(* Automatic respawn: login and map change with every spawn succeeding,     *)
(* under reloads of CreatureCapture.MaxSlots                                *)
(***************************************************************************)
NextRespawn ==
    \/ MaxSlotsStep
    \/ CaptureGoodStep
    \/ DismissSelectedStep
    \/ MenuStep
    \/ OnPlayerBeforeTeleport(FALSE)
    \/ MapChangedAllStep
    \/ LoginAllStep
    \/ OnPlayerLogout

SpecRespawn == Init /\ [][NextRespawn]_vars

(***************************************************************************)
(* Casting: one controller of each archetype and ability array, its updates  *)
(* in and out of combat and the cooldowns running down                       *)
(***************************************************************************)
\* the ability arrays of the controllers followed (99 is not in the catalog)
Loadouts ==
    { <<99, 21, 23, 0, 0, 0, 0, 0>>,
      <<0, 22, 0, 25, 0, 0, 0, 0>>,
      <<24, 0, 0, 0, 0, 0, 0, 26>> }

\* a controller as its constructor leaves it, the owner found, the guardian following
Controller(archetype, spells) ==
    [NoController EXCEPT !.archetype = archetype, !.spells = spells,
                         !.cooldowns = [sp \in CastCatalog |-> NoCooldown],
                         !.owner = "set", !.inWorld = TRUE, !.motion = "follow",
                         !.health = NoSituation.health]

\* the guardian is in slot 0, slot 3 is not active
Env(owner, ownerPct, selfPct, k1, k2) ==
    [owner |-> owner, ownerPct |-> ownerPct, selfPct |-> selfPct,
     allies |-> <<"me", k1, k2, "inactive">>]

\* the owner, the guardian and the guardians of slots 1 and 2 in every state of health
HealEnvs ==
    {Env(o[1], o[2], s, k1, k2) :
        o \in {<<"dead", 0>>, <<"alive", 40>>, <<"alive", 50>>, <<"alive", 90>>},
        s \in {30, 50, 90},
        k1 \in {"dead", "hurt", "fine"},
        k2 \in {"gone", "hurt"}}

\* two of them: the owner wounded, nobody wounded
CastEnvs == {Env("alive", 40, 90, "fine", "inactive"), Env("alive", 90, 90, "fine", "inactive")}

Situation(victim, inRange, auras) ==
    [NoSituation EXCEPT !.victim = victim, !.inRange = inRange, !.targetAuras = auras,
                        !.selfAuras = auras, !.allyAuras = auras]
CastSituations ==
    { Situation(TRUE, TRUE, {}), Situation(TRUE, FALSE, {}), Situation(TRUE, TRUE, {25, 26}),
      Situation(FALSE, TRUE, {}) }

\* the values of urand(500, 1500) tried
RandomDelays == {500, 1500}
\* the steps of the world clock, in milliseconds
ClockSteps == {500, 2500}

InitCast ==
    /\ config = [enabled |-> TRUE, maxSlots |-> 4, healthPct |-> 100]
    /\ phase = "offline"
    /\ slots = [i \in Slots |-> EmptySlot]
    /\ db = [i \in Slots |-> NoRow]
    /\ world = [g \in Guids |-> NoCreature]
    /\ nextGuid = 1
    /\ last = Report("init", -1, "ok")
    /\ targetInWorld = TRUE
    /\ ai \in {Controller(a, l) :
                 a \in {ARCHETYPE_DPS, ARCHETYPE_TANK, ARCHETYPE_HEALER}, l \in Loadouts}

\* only the tank draws a second delay
UpdateStep ==
    \E env \in CastEnvs, sit \in CastSituations, r \in RandomDelays :
        \E r2 \in (IF ai.archetype = ARCHETYPE_TANK THEN RandomDelays ELSE {r}) :
            UpdateAI(env, sit, r, r2)
ClockStep == \E diff \in ClockSteps : ElapseTime(diff)

NextCast ==
    \/ UpdateStep
    \/ ClockStep
    \/ CastFinished

SpecCast == InitCast /\ [][NextCast]_vars

\* the healer with the short heal, in every state of health of its allies
InitHeal ==
    /\ config = [enabled |-> TRUE, maxSlots |-> 4, healthPct |-> 100]
    /\ phase = "offline"
    /\ slots = [i \in Slots |-> EmptySlot]
    /\ db = [i \in Slots |-> NoRow]
    /\ world = [g \in Guids |-> NoCreature]
    /\ nextGuid = 1
    /\ last = Report("init", -1, "ok")
    /\ targetInWorld = TRUE
    /\ ai = Controller(ARCHETYPE_HEALER, <<99, 21, 23, 0, 0, 0, 0, 0>>)

HealUpdateStep ==
    \E env \in HealEnvs, victim \in BOOLEAN :
        UpdateAI(env, Situation(victim, TRUE, {}), 500, 500)

NextHeal ==
    \/ HealUpdateStep
    \/ ElapseTime(10000)
    \/ CastFinished

SpecHeal == InitHeal /\ [][NextHeal]_vars

(***************************************************************************)
(* Properties of the lifecycle                                             *)
(***************************************************************************)
\* the instances of the world whose controller was created for slot i
InstancesOfSlot(w, i) == {g \in Guids : w[g].inWorld /\ w[g].aiSlotIndex = i}

\* a menu Dismiss, a command Dismiss or a Summon of slot i has just run
IsDismissOf(r, i) == r.op \in {"Dismiss", "DismissCmd"} /\ r.slot = i
IsSummonOf(r, i) == r.op = "Summon" /\ r.slot = i

\* C1: a slot that is dismissed and stored becomes active only by a Summon of that
\* slot; no login, teleport or map change activates it.
C1_DismissedStaysStored ==
    [][\A i \in Slots :
          (slots[i].dismissed /\ ~IsActive(slots[i]) /\ IsActive(slots'[i]))
              => (IsSummonOf(last', i) /\ last'.result = "ok")]_vars

\* C2: in every reachable state each slot has at most one spawned instance whose
\* controller is bound to it.
C2_OneInstancePerSlot ==
    \A i \in Slots : Cardinality(InstancesOfSlot(world, i)) <= 1

\* C3: in every reachable state a slot's handle is set exactly when its spawned
\* instance exists: a set handle resolves, and every spawned instance is the one
\* the handle of its slot names.
C3_HandleIffInstance ==
    /\ \A i \in Slots : IsActive(slots[i]) => Resolves(world, slots[i].guardianGuid)
    /\ \A g \in Guids : world[g].inWorld => slots[world[g].aiSlotIndex].guardianGuid = g

\* C9: a Dismiss of an active slot, by the menu or by the command, ends with the
\* instance despawned, the handle cleared, dismissed set, the snapshot equal to the
\* instance's state at the call, and the durable record equal to the slot.
C9_DismissActive ==
    [][\A i \in Slots :
          (IsDismissOf(last', i) /\ IsActive(slots[i]))
              => LET guid == slots[i].guardianGuid
                     g == world[guid]
                 IN  /\ ~Resolves(world', guid)
                     /\ ~IsActive(slots'[i])
                     /\ slots'[i].dismissed
                     /\ Resolves(world, guid) =>
                           /\ slots'[i].guardianHealth = g.health
                           /\ slots'[i].guardianPower = g.power
                           /\ slots'[i].guardianPowerType = g.powerType
                           /\ slots'[i].spellSlots = g.aiSpells
                     /\ db'[i] = RowOf(slots'[i])]_vars

(***************************************************************************)
(* Properties of the slot cap (SpecConfig)                                 *)
(***************************************************************************)
Occupied(sl) == {i \in Slots : IsOccupied(sl[i])}

\* what FindEmptySlot returns in the current state is none, with every slot below
\* maxSlots occupied, or the lowest unoccupied index below maxSlots
FindEmptySlotIsLowest ==
    LET r == FindEmptySlot(slots, config.maxSlots)
        below == 0 .. (config.maxSlots - 1)
    IN  IF r = -1 THEN \A j \in below : IsOccupied(slots[j])
        ELSE /\ r \in below
             /\ ~IsOccupied(slots[r])
             /\ \A j \in below : j < r => IsOccupied(slots[j])

\* C4: in every reachable state, whatever captures, GM spawns, releases, logins and
\* configuration loads came before, at most maxSlots slots are occupied, and
\* FindEmptySlot returns none or the lowest unoccupied index below maxSlots.
C4_AtMostMaxSlots ==
    /\ Cardinality(Occupied(slots)) <= config.maxSlots
    /\ FindEmptySlotIsLowest

(***************************************************************************)
(* Properties of snapshot and restore (SpecRestore)                        *)
(***************************************************************************)
\* slot i was stored before the step and has an instance after it
Respawned(i) == IsOccupied(slots[i]) /\ ~IsActive(slots[i]) /\ IsActive(slots'[i])

\* C5: a Summon or automatic respawn of a stored slot gives the new instance the
\* health min(snapshot health, maximum health): a snapshot above the maximum gives
\* the maximum, and a snapshot of 0 gives 0.
C5_HealthIsMinOfSnapshot ==
    [][\A i \in Slots :
          Respawned(i)
              => LET g == world'[slots'[i].guardianGuid]
                 IN  g.health = Min(slots'[i].guardianHealth, g.maxHealth)]_vars

(***************************************************************************)
(* Properties of archetype and abilities (SpecAbility)                     *)
(***************************************************************************)
\* C6: a Dismiss of an active slot leaves the slot's archetype and ability array
\* equal to those the slot and its controller held just before it, and a Summon
\* leaves them as stored and builds the controller with the same archetype and the
\* same eight abilities in order; so Dismiss then Summon restores what the
\* archetype menu, Teach and Unlearn had set.
C6_DismissSummonKeepsAbilities ==
    [][\A i \in Slots :
          /\ (IsDismissOf(last', i) /\ IsActive(slots[i]))
                => /\ slots'[i].archetype = slots[i].archetype
                   /\ slots'[i].spellSlots = slots[i].spellSlots
                   /\ Resolves(world, slots[i].guardianGuid)
                         => /\ slots'[i].archetype = world[slots[i].guardianGuid].aiArchetype
                            /\ slots'[i].spellSlots = world[slots[i].guardianGuid].aiSpells
          /\ (IsSummonOf(last', i) /\ last'.result = "ok")
                => /\ slots'[i].archetype = slots[i].archetype
                   /\ slots'[i].spellSlots = slots[i].spellSlots
                   /\ world'[slots'[i].guardianGuid].aiArchetype = slots[i].archetype
                   /\ world'[slots'[i].guardianGuid].aiSpells = slots[i].spellSlots]_vars

\* a slot whose archetype was changed, with one ability taught and one unlearned,
\* has just been summoned again
C6_Witness ==
    /\ last.op = "Summon" /\ last.result = "ok"
    /\ LET s == slots[last.slot]
       IN  /\ s.archetype = ARCHETYPE_HEALER
           /\ s.spellSlots[1] = 0 /\ s.spellSlots[2] # 0 /\ s.spellSlots[3] = 9
           /\ Resolves(world, s.guardianGuid)
           /\ world[s.guardianGuid].aiArchetype = ARCHETYPE_HEALER
           /\ world[s.guardianGuid].aiSpells = s.spellSlots

(***************************************************************************)
(* Properties of release, dismiss and summon (Spec)                        *)
(***************************************************************************)
\* C7: right after a Release the slot has every field at its default and no
\* durable record, the instance its handle named and every living instance of the
\* slot are gone, and a record that is absent appears again only by a successful
\* Capture or GM spawn into that slot.
C7_ReleaseClears ==
    /\ [](\A i \in Slots :
             (last.op = "Release" /\ last.slot = i)
                 => (slots[i] = EmptySlot /\ db[i] = NoRow))
    /\ [][\A i \in Slots :
             /\ (last'.op = "Release" /\ last'.slot = i)
                   => /\ IsActive(slots[i]) => ~Resolves(world', slots[i].guardianGuid)
                      /\ \A g \in InstancesOfSlot(world', i) : ~world'[g].alive
             /\ (~db[i].present /\ db'[i].present)
                   => (last'.op \in {"Capture", "Spawn"} /\ last'.slot = i
                       /\ last'.result = "ok")]_vars

\* a slot that had a guardian has just been released: its record and every instance are gone
C7_Witness ==
    /\ last.op = "Release"
    /\ nextGuid > 1
    /\ slots[last.slot] = EmptySlot
    /\ db[last.slot] = NoRow
    /\ \A g \in Guids : ~world[g].inWorld
    /\ \E i \in Slots : i # last.slot /\ IsOccupied(slots[i])

\* no slot of the owner is active: every guardian is stored or the slot is empty
NoSlotActive == \A i \in Slots : ~IsActive(slots[i])

\* C8 as stated: a Dismiss that meets no active slot, by the menu on a slot that is
\* not active or by the command of an owner none of whose slots is active, reports
\* the not-active failure and leaves every slot, every instance and every durable
\* record as it was.
C8_DismissInactiveReportsNotActive ==
    [][/\ \A i \in Slots :
             (last'.op = "Dismiss" /\ last'.slot = i /\ ~IsActive(slots[i]))
                 => (last'.result = "NotActive" /\ UNCHANGED <<slots, db, world>>)
       /\ (last'.op = "DismissCmd" /\ NoSlotActive)
             => (last'.result = "NotActive" /\ UNCHANGED <<slots, db, world>>)]_vars

\* C8: a menu Dismiss of a slot that is not active reports NotActive and changes
\* nothing. A command Dismiss finds its slot through the unit the owner has
\* selected, so it never meets a slot that is not active: it succeeds on an active
\* slot only, and every other call, that of an owner none of whose slots is
\* active included, reports NoTarget, names no slot, never reports NotActive and
\* leaves every slot, every instance and every durable record as it was.
C8_DismissInactiveNoChange ==
    [][/\ \A i \in Slots :
             (last'.op = "Dismiss" /\ last'.slot = i /\ ~IsActive(slots[i]))
                 => (last'.result = "NotActive" /\ UNCHANGED <<slots, db, world>>)
       /\ last'.op = "DismissCmd"
             => IF last'.result = "ok"
                THEN last'.slot \in Slots /\ IsActive(slots[last'.slot])
                ELSE /\ last'.result = "NoTarget" /\ last'.slot = -1
                     /\ UNCHANGED <<slots, db, world>>
       /\ (last'.op = "DismissCmd" /\ NoSlotActive) => last'.result = "NoTarget"]_vars

\* the owner, whose only guardian is stored and dismissed, has just used the
\* command: it reported that no guardian is selected
C8_Witness ==
    /\ last = Report("DismissCmd", -1, "NoTarget")
    /\ NoSlotActive
    /\ \E i \in Slots :
          /\ IsOccupied(slots[i]) /\ slots[i].dismissed
          /\ db[i] = RowOf(slots[i])

\* C10: a Summon of an unoccupied slot reports Empty and a Summon of an active slot
\* reports AlreadyActive, both changing nothing; a Summon whose spawn fails changes
\* nothing; a successful Summon sets the handle to the new instance, clears
\* dismissed and writes the durable record.
C10_SummonOutcomes ==
    [][\A i \in Slots :
          IsSummonOf(last', i)
              => IF ~IsOccupied(slots[i])
                 THEN last'.result = "Empty" /\ UNCHANGED <<slots, db, world>>
                 ELSE IF IsActive(slots[i])
                 THEN last'.result = "AlreadyActive" /\ UNCHANGED <<slots, db, world>>
                 ELSE \/ last'.result = "SpawnFailed" /\ UNCHANGED <<slots, db, world>>
                      \/ /\ last'.result = "ok"
                         /\ ~Resolves(world, slots'[i].guardianGuid)
                         /\ Resolves(world', slots'[i].guardianGuid)
                         /\ world'[slots'[i].guardianGuid].aiSlotIndex = i
                         /\ ~slots'[i].dismissed
                         /\ db'[i] = RowOf(slots'[i])
                         /\ \A j \in Slots \ {i} : slots'[j] = slots[j] /\ db'[j] = db[j]]_vars

\* a slot has just been summoned: it is active, not dismissed, and its record says so
C10_Witness ==
    /\ last.op = "Summon" /\ last.result = "ok"
    /\ LET s == slots[last.slot]
       IN  /\ Resolves(world, s.guardianGuid)
           /\ world[s.guardianGuid].alive
           /\ ~s.dismissed
           /\ db[last.slot].present /\ db[last.slot].dismissed = 0

(***************************************************************************)
(* Properties of teleport and logout (Spec)                                *)
(***************************************************************************)
\* the snapshot fields of slot s hold the state of instance g
HoldsSnapshotOf(s, g) ==
    /\ s.guardianHealth = g.health
    /\ s.guardianPower = g.power
    /\ s.guardianPowerType = g.powerType
    /\ s.spellSlots = g.aiSpells

\* C11: a teleport within the same map leaves every slot as it was, the handle of
\* every active slot included, and changes nothing of an instance but its position.
C11_SameMapTeleportKeepsSlots ==
    [][last'.op = "TeleportSameMap"
          => /\ \A i \in Slots : slots'[i] = slots[i]
             /\ \A g \in Guids : world'[g] = world[g]]_vars

\* C12: a teleport to another map leaves no slot active; for every slot that was
\* active the instance is gone, the handle is cleared, the snapshot holds the
\* instance's health, power and abilities at the call, and identity, level,
\* archetype and dismissed flag are as before; inactive slots are not touched.
C12_CrossMapTeleportStores ==
    [][last'.op = "TeleportCrossMap"
          => \A i \in Slots :
                /\ ~IsActive(slots'[i])
                /\ IF IsActive(slots[i])
                   THEN LET guid == slots[i].guardianGuid
                        IN  /\ ~Resolves(world', guid)
                            /\ Resolves(world, guid) => HoldsSnapshotOf(slots'[i], world[guid])
                            /\ slots'[i].guardianEntry = slots[i].guardianEntry
                            /\ slots'[i].guardianLevel = slots[i].guardianLevel
                            /\ slots'[i].archetype = slots[i].archetype
                            /\ slots'[i].dismissed = slots[i].dismissed
                   ELSE slots'[i] = slots[i]]_vars

\* the owner is between maps and a slot holds the snapshot of a damaged guardian
C12_Witness ==
    /\ last.op = "TeleportCrossMap"
    /\ phase = "transit"
    /\ \A g \in Guids : ~world[g].inWorld
    /\ \E i \in Slots :
          /\ IsOccupied(slots[i]) /\ ~IsActive(slots[i]) /\ ~slots[i].dismissed
          /\ slots[i].guardianHealth = 1

\* C14: after Logout no slot is active, no guardian instance is left in the world,
\* the durable record of every occupied slot equals the slot, and the slot of every
\* instance that was spawned holds its snapshot.
C14_LogoutStoresAll ==
    [][last'.op = "Logout"
          => /\ \A i \in Slots : ~IsActive(slots'[i])
             /\ \A g \in Guids : ~world'[g].inWorld
             /\ \A i \in Slots : IsOccupied(slots'[i]) => db'[i] = RowOf(slots'[i])
             /\ \A i \in Slots :
                   (IsActive(slots[i]) /\ Resolves(world, slots[i].guardianGuid))
                       => HoldsSnapshotOf(slots'[i], world[slots[i].guardianGuid])]_vars

(***************************************************************************)
(* Properties of the automatic respawn (SpecRespawn)                       *)
(***************************************************************************)
\* slot s of index i is active and its instance g has the slot's stored identity,
\* level, archetype and abilities
RespawnedFrom(s, i, w) ==
    /\ IsActive(s)
    /\ Resolves(w, s.guardianGuid)
    /\ LET g == w[s.guardianGuid]
       IN  /\ g.entry = s.guardianEntry
           /\ g.level = s.guardianLevel
           /\ g.aiArchetype = s.archetype
           /\ g.aiSpells = s.spellSlots
           /\ g.aiSlotIndex = i

\* C13: when every spawn succeeds, after Login every slot that is occupied and not
\* dismissed is active, and after the map change that follows a teleport to
\* another map every slot that was occupied, inactive and not dismissed is active,
\* each with its stored identity, level, archetype and abilities, at every slot index.
C13_RespawnsEveryStoredSlot ==
    [][/\ last'.op = "Login"
             => \A i \in Slots :
                   (IsOccupied(slots'[i]) /\ ~slots'[i].dismissed)
                       => RespawnedFrom(slots'[i], i, world')
       /\ last'.op = "MapChanged"
             => \A i \in Slots :
                   (IsOccupied(slots[i]) /\ ~IsActive(slots[i]) /\ ~slots[i].dismissed)
                       => /\ RespawnedFrom(slots'[i], i, world')
                          /\ slots'[i].guardianEntry = slots[i].guardianEntry
                          /\ slots'[i].spellSlots = slots[i].spellSlots]_vars

(***************************************************************************)
(* Properties of capture (Spec, SpecConfig)                                *)
(***************************************************************************)
\* C17: a Capture that fails changes no slot, no durable record and no instance,
\* and the creature it was used on is still in the world.
C17_FailedCaptureChangesNothing ==
    [][(last'.op = "Capture" /\ last'.result # "ok")
          => /\ slots' = slots
             /\ db' = db
             /\ world' = world
             /\ targetInWorld']_vars

\* the i-th non-zero entry of the native ability list sp, 0 when there is none
NthNative(sp, i) ==
    LET at == {j \in DOMAIN sp : sp[j] # 0 /\ Cardinality({k \in 1 .. j : sp[k] # 0}) = i}
    IN  IF at = {} THEN 0 ELSE sp[CHOOSE j \in at : TRUE]

\* C18: a successful Capture fills the lowest unoccupied slot below maxSlots; the
\* slot is occupied and active with archetype DPS, its abilities are the first
\* non-zero native abilities of the creature in order, padded with 0, the same in
\* the slot, in the controller and in the durable record; no other slot changes.
C18_CaptureFillsLowestSlot ==
    [][(last'.op = "Capture" /\ last'.result = "ok")
          => LET i == last'.slot
                 s == slots'[i]
                 native == [k \in SpellIdx |-> NthNative(TemplateSpells(s.guardianEntry), k)]
             IN  /\ i \in Slots
                 /\ i < config.maxSlots
                 /\ ~IsOccupied(slots[i])
                 /\ \A j \in Slots : j < i => IsOccupied(slots[j])
                 /\ IsOccupied(s)
                 /\ IsActive(s)
                 /\ s.archetype = ARCHETYPE_DPS
                 /\ s.spellSlots = native
                 /\ Resolves(world', s.guardianGuid)
                 /\ world'[s.guardianGuid].aiSpells = native
                 /\ world'[s.guardianGuid].aiArchetype = ARCHETYPE_DPS
                 /\ db'[i].present
                 /\ DeserializeSpells(db'[i].spells) = native
                 /\ db'[i].archetype = ARCHETYPE_DPS
                 /\ ~targetInWorld'
                 /\ \A j \in Slots \ {i} : slots'[j] = slots[j] /\ db'[j] = db[j]]_vars

\* a capture of a creature whose native list has gaps filled slot 1
C18_Witness ==
    /\ last = Report("Capture", 1, "ok")
    /\ IsActive(slots[1])
    /\ TemplateSpells(slots[1].guardianEntry) = <<0, 5, 0, 6, 0, 0, 0, 0>>
    /\ slots[1].spellSlots = [k \in SpellIdx |-> IF k = 1 THEN 5 ELSE IF k = 2 THEN 6 ELSE 0]
    /\ IsOccupied(slots[0])

(***************************************************************************)
(* Properties of teach and unlearn (SpecTeach)                             *)
(***************************************************************************)
\* slot gs holds ability sp at index idx in the slot, in its controller and in its
\* durable record after the step, every other index is as before in all three,
\* and no other slot, record or instance changed
AbilityWritten(gs, idx, sp) ==
    LET guid == slots[gs].guardianGuid
        stored == DeserializeSpells(db'[gs].spells)
    IN  /\ slots'[gs].spellSlots[idx] = sp
        /\ world'[guid].aiSpells[idx] = sp
        /\ db'[gs].present /\ stored[idx] = sp
        /\ \A k \in SpellIdx \ {idx} :
              /\ slots'[gs].spellSlots[k] = slots[gs].spellSlots[k]
              /\ world'[guid].aiSpells[k] = world[guid].aiSpells[k]
              /\ stored[k] = slots[gs].spellSlots[k]
        /\ \A j \in Slots \ {gs} : slots'[j] = slots[j] /\ db'[j] = db[j]
        /\ \A g \in Guids \ {guid} : world'[g] = world[g]

\* the selection is an active guardian of the owner and idx is an ability index
Teachable(sel, idx) ==
    /\ \E i \in Slots : IsActive(slots[i]) /\ slots[i].guardianGuid = sel /\ Resolves(world, sel)
    /\ idx \in 1 .. MAX_GUARDIAN_SPELLS

\* C15: a successful Teach leaves the ability at the index in the slot, the
\* controller and the durable record and every other index unchanged; a successful
\* Unlearn leaves 0 there in all three; Teach or Unlearn with no active slot
\* selected, or with an index outside 1..8, changes nothing.
C15_TeachUnlearnWriteIndex ==
    [][/\ \A sel \in Selections, idx \in TeachIndices, sp \in TeachCatalog :
             (<<sel, idx, sp>> \in TeachInputs /\ TeachCommand(sel, idx, sp))
                 => /\ last'.result = "ok"
                       => AbilityWritten(FindSlotByGuid(slots, sel), idx, sp)
                    /\ ~Teachable(sel, idx)
                       => last'.result # "ok" /\ UNCHANGED <<slots, db, world>>
       /\ \A sel \in Selections, idx \in TeachIndices :
             (<<sel, idx>> \in UnlearnInputs /\ UnlearnCommand(sel, idx))
                 => /\ last'.result = "ok"
                       => AbilityWritten(FindSlotByGuid(slots, sel), idx, 0)
                    /\ ~Teachable(sel, idx)
                       => last'.result # "ok" /\ UNCHANGED <<slots, db, world>>]_vars

\* an ability was taught at index 3 of slot 1 while slot 0 is dismissed
C15_Witness ==
    /\ last = Report("Teach", 1, "ok")
    /\ IsActive(slots[1])
    /\ slots[1].spellSlots[3] = 8
    /\ world[slots[1].guardianGuid].aiSpells[3] = 8
    /\ DeserializeSpells(db[1].spells)[3] = 8
    /\ IsOccupied(slots[0]) /\ ~IsActive(slots[0])

\* the ability costs something, flat or as a percentage
HasCost(info) == info.ManaCost > 0 \/ info.ManaCostPercentage > 0

\* C16: a Teach on an active guardian with a valid index is rejected, with the
\* slot, the controller and the durable record unchanged, exactly when the ability
\* does not exist or has a non-zero cost in a resource kind different from the
\* guardian's resource kind.
C16_RejectedIffForeignCost ==
    [][\A sel \in Selections, idx \in TeachIndices, sp \in TeachCatalog :
          (Teachable(sel, idx) /\ TeachCommand(sel, idx, sp))
              => LET info == SpellInfo(sp)
                 IN  /\ last'.result # "ok" => UNCHANGED <<slots, db, world>>
                     /\ last'.result # "ok"
                           <=> \/ ~info.exists
                               \/ HasCost(info) /\ info.PowerType # world[sel].powerType]_vars

\* C16, amended: a Teach on an active guardian with a valid index is rejected, with
\* the slot, the controller and the durable record unchanged, exactly when the
\* ability does not exist or has a non-zero cost, flat or percentage, in a resource
\* kind other than health that differs from the guardian's resource kind.
C16_RejectedIffForeignNonHealthCost ==
    [][\A sel \in Selections, idx \in TeachIndices, sp \in TeachCatalog :
          (Teachable(sel, idx) /\ TeachCommand(sel, idx, sp))
              => LET info == SpellInfo(sp)
                 IN  /\ last'.result # "ok" => UNCHANGED <<slots, db, world>>
                     /\ last'.result # "ok"
                           <=> \/ ~info.exists
                               \/ /\ HasCost(info)
                                  /\ info.PowerType # POWER_HEALTH
                                  /\ info.PowerType # world[sel].powerType]_vars

\* a rage guardian holds the health-cost ability and a Teach was just rejected for
\* its resource kind
C16_Witness ==
    /\ last.op = "Teach" /\ last.result = "WrongPower"
    /\ \E i \in Slots :
          /\ IsActive(slots[i])
          /\ slots[i].guardianPowerType = POWER_RAGE
          /\ slots[i].spellSlots[3] = 11

(***************************************************************************)
(* Properties of the casting steps (SpecHeal, SpecCast)                    *)
(***************************************************************************)
\* C19: when the healer casts a heal, the target is the owner whenever the owner is
\* alive and below the heal threshold, whatever the health of the healer and of
\* the other guardians; the healer itself only when the owner is not eligible;
\* another guardian only when neither the owner nor the healer is eligible.
C19_HealTargetsOwnerFirst ==
    (\E sp \in ai.casts : SpellTraits(sp).heal)
        => LET e == ai.env
               ownerEligible == e.owner = "alive" /\ e.ownerPct < 50
               selfEligible == e.selfPct < 50
           IN  /\ ai.target \in {"owner", "self"} \cup {AllyName(i) : i \in Slots}
               /\ ownerEligible => ai.target = "owner"
               /\ ai.target = "owner" => ownerEligible
               /\ ai.target = "self" => ~ownerEligible /\ selfEligible
               /\ \A i \in Slots :
                     ai.target = AllyName(i)
                         => ~ownerEligible /\ ~selfEligible /\ e.allies[i + 1] = "hurt"

\* owner at 40%, healer at 90%, the guardian of slot 1 at 30%: the heal went to the owner
C19_Witness ==
    /\ ai.archetype = ARCHETYPE_HEALER
    /\ 21 \in ai.casts
    /\ ai.env.owner = "alive" /\ ai.env.ownerPct = 40
    /\ ai.env.selfPct = 90
    /\ ai.env.allies[2] = "hurt"
    /\ ai.target = "owner"

\* C20: an ability cast in an update was off cooldown before it and has a
\* strictly positive cooldown after it, equal to the duration committed; while
\* time elapses the remaining cooldown only decreases, is never negative, and is
\* zero exactly when the committed duration has elapsed.
C20_CooldownPositiveThenCountsDown ==
    /\ [](\A sp \in CastCatalog :
             LET cd == ai.cooldowns[sp]
             IN  /\ cd.remaining >= 0
                 /\ cd.remaining = cd.committed - cd.elapsed
                 /\ cd.remaining = 0 <=> cd.elapsed = cd.committed)
    /\ [][/\ (~CastFinished /\ \A diff \in ClockSteps : ~ElapseTime(diff))
                => \A sp \in ai'.casts :
                      /\ ai.cooldowns[sp].remaining = 0
                      /\ ai'.cooldowns[sp].remaining > 0
                      /\ ai'.cooldowns[sp].remaining = ai'.cooldowns[sp].committed
                      /\ ai'.cooldowns[sp].elapsed = 0
          /\ \A diff \in ClockSteps :
                ElapseTime(diff)
                    => \A sp \in CastCatalog :
                          /\ ai'.cooldowns[sp].remaining <= ai.cooldowns[sp].remaining
                          /\ ai.cooldowns[sp].remaining > 0
                                => ai'.cooldowns[sp].remaining < ai.cooldowns[sp].remaining]_vars

\* the cooldown of the heal cast last, floored at 10 s, ran down to exactly zero
C20_Witness ==
    /\ 21 \in ai.casts
    /\ ai.cooldowns[21] = [remaining |-> 0, committed |-> 10000, elapsed |-> 10000]
    /\ ai.cooldowns[23].committed = 3000

(***************************************************************************)
(* Persistence: rows of character_guardian written by an earlier session,   *)
(* with fewer than MAX_GUARDIAN_SPELLS ids, then login, capture, teach,     *)
(* dismiss, summon, release and logout                                      *)
(***************************************************************************)
\* ability lists of stored rows with fewer than MAX_GUARDIAN_SPELLS entries
StoredLists == {<<>>, <<5>>, <<5, 6>>, <<0, 7, 0>>}

\* a stored ability list as text: the ids joined by commas
RECURSIVE JoinIds(_)
JoinIds(list) ==
    IF list = <<>> THEN <<>>
    ELSE ToText(Head(list)) \o (IF Len(list) > 1 THEN <<",">> ELSE <<>>) \o JoinIds(Tail(list))

\* a stored ability text edited outside the module: white space and signs before the ids
EditedText == <<" ", VerticalTab, "5", ",", "+", "6", ",", "-", "7">>

\* the ability texts of the rows found in the table at login
StoredTexts == {JoinIds(list) : list \in StoredLists} \cup {EditedText}

\* a row of a dismissed tank found in the table at login
StoredRow(text) ==
    [present |-> TRUE, entry |-> 1, level |-> PlayerLevel, cur_health |-> 1, cur_power |-> 1,
     power_type |-> TemplatePowerType(1), archetype |-> ARCHETYPE_TANK,
     spells |-> text, display_id |-> TemplateDisplayId(1),
     equipment_id |-> -1, dismissed |-> 1]

InitPersist ==
    /\ config = [enabled |-> TRUE, maxSlots |-> 4, healthPct |-> 100]
    /\ phase = "offline"
    /\ slots = [i \in Slots |-> EmptySlot]
    /\ db \in {[i \in Slots |-> IF i = 0 THEN StoredRow(text) ELSE NoRow] : text \in StoredTexts}
    /\ world = [g \in Guids |-> NoCreature]
    /\ nextGuid = 1
    /\ last = Report("init", -1, "ok")
    /\ targetInWorld = TRUE
    /\ ai = NoController

\* the owner uses the item on a creature that carries equipment 200
CaptureEquippedStep == Capture(GoodTarget(1, PlayerLevel, 200), TRUE, FALSE)

NextPersist ==
    \/ CaptureGoodStep
    \/ CaptureEquippedStep
    \/ TeachStep
    \/ DismissSelectedStep
    \/ MenuStep
    \/ LoginAllStep
    \/ OnPlayerLogout

SpecPersist == InitPersist /\ [][NextPersist]_vars

\* the slot fields that are columns of character_guardian
StoredFields(s) ==
    <<s.guardianEntry, s.guardianLevel, s.archetype, s.spellSlots, s.guardianHealth,
      s.guardianPower, s.guardianPowerType, s.displayId, s.equipmentId, s.dismissed>>

\* C22: saving a slot and loading it back into a fresh session yields the same
\* identity, level, archetype, eight abilities in order, resource snapshot, display
\* and equipment hints and dismissed flag, with the live handle empty; a stored
\* ability list with fewer than eight entries loads with the missing entries as
\* 0; saving an unoccupied slot writes no record.
C22_SaveLoadRoundTrip ==
    \A i \in Slots :
        LET fresh == [j \in Slots |-> EmptySlot]
            saved == SaveRow([j \in Slots |-> NoRow], slots[i], i)
            back == LoadGuardiansFromDb(fresh, saved)[i]
            loaded == LoadGuardiansFromDb(fresh, db)[i]
        IN  /\ IsOccupied(slots[i])
                => /\ saved[i].present
                   /\ StoredFields(back) = StoredFields(slots[i])
                   /\ back.guardianGuid = 0
            /\ ~IsOccupied(slots[i]) => saved = [j \in Slots |-> NoRow]
            /\ \A list \in StoredLists :
                  (db[i].present /\ db[i].spells = JoinIds(list))
                      => /\ loaded.guardianGuid = 0
                         /\ loaded.spellSlots =
                                [k \in SpellIdx |-> IF k <= Len(list) THEN list[k] ELSE 0]

\* after a login, slot 0 holds the stored tank with the two stored abilities and
\* six zeros, and slot 1 holds a captured guardian that is active
C22_Witness ==
    /\ phase = "world"
    /\ db[0].spells = JoinIds(<<5, 6>>)
    /\ slots[0].spellSlots = <<5, 6, 0, 0, 0, 0, 0, 0>>
    /\ slots[0].dismissed /\ slots[0].archetype = ARCHETYPE_TANK
    /\ IsOccupied(slots[1]) /\ IsActive(slots[1])

\* the health fraction of a heal candidate, and whether the heal step may heal it
HealthPctOf(env, name) ==
    IF name = "owner" THEN env.ownerPct
    ELSE IF name = "self" THEN env.selfPct
    ELSE AllySlot(env.allies[CHOOSE k \in 1 .. MAX_GUARDIAN_SLOTS : AllyName(k - 1) = name]).pct
HealCandidates(env) ==
    {n \in {"owner"} : env.owner = "alive" /\ env.ownerPct < 50}
    \cup {n \in {"self"} : env.selfPct < 50}
    \cup {AllyName(i) : i \in {j \in Slots :
              LET s == AllySlot(env.allies[j + 1])
              IN  env.owner # "absent" /\ s.active /\ ~s.me /\ s.resolves /\ s.alive
                  /\ s.pct < 50}}

\* C23: when the heal step casts, its target is the candidate with the lowest health
\* fraction among the eligible ones (owner, the healer itself, the other guardians of
\* the owner).
C23_HealTargetsMostWounded ==
    (\E sp \in ai.casts : SpellTraits(sp).heal)
        => /\ ai.target \in HealCandidates(ai.env)
           /\ \A n \in HealCandidates(ai.env) :
                 HealthPctOf(ai.env, ai.target) <= HealthPctOf(ai.env, n)

(***************************************************************************)
(* The update of one controller under changes of the owner, of the distance *)
(* to the owner, of the combat target and of the guardian's health          *)
(***************************************************************************)
\* the times between two updates, in milliseconds
TickDiffs == {400, 1000}

\* the owner alive and well, the guardian in slot 0, two healthy guardians beside it
TickEnv == Env("alive", 90, 90, "fine", "fine")

\* what an idle guardian may find: one change to the quiet situation at a time
IdleSituations ==
    { NoSituation,
      [NoSituation EXCEPT !.alive = FALSE, !.ownerDist = 60],
      [NoSituation EXCEPT !.ownerDist = 45],
      [NoSituation EXCEPT !.ownerDist = 60],
      [NoSituation EXCEPT !.ownerInWorld = FALSE, !.ownerDist = 60],
      [NoSituation EXCEPT !.health = 50],
      [NoSituation EXCEPT !.health = 97],
      [NoSituation EXCEPT !.health = 5, !.maxHealth = 10],
      [NoSituation EXCEPT !.mana = 10, !.maxMana = 100],
      [NoSituation EXCEPT !.helper = "legal", !.health = 50],
      [NoSituation EXCEPT !.following = FALSE] }

\* what a guardian with a combat target may find
EngagedSituations ==
    { [NoSituation EXCEPT !.victim = TRUE],
      [NoSituation EXCEPT !.victim = TRUE, !.victimAlive = FALSE],
      [NoSituation EXCEPT !.victim = TRUE, !.victimAttackable = FALSE],
      [NoSituation EXCEPT !.victim = TRUE, !.ownerDist = 45],
      [NoSituation EXCEPT !.victim = TRUE, !.ownerDist = 60],
      [NoSituation EXCEPT !.victim = TRUE, !.ownerInWorld = FALSE],
      [NoSituation EXCEPT !.victim = TRUE, !.health = 50] }

InitTick ==
    /\ config = [enabled |-> TRUE, maxSlots |-> 4, healthPct |-> 100]
    /\ phase = "offline"
    /\ slots = [i \in Slots |-> EmptySlot]
    /\ db = [i \in Slots |-> NoRow]
    /\ world = [g \in Guids |-> NoCreature]
    /\ nextGuid = 1
    /\ last = Report("init", -1, "ok")
    /\ targetInWorld = TRUE
    /\ ai \in {Controller(a, <<24, 21, 0, 0, 0, 0, 0, 0>>) :
                  a \in {ARCHETYPE_DPS, ARCHETYPE_TANK, ARCHETYPE_HEALER}}

\* the combat target of the guardian is the one its last update left
TickStep ==
    \E diff \in TickDiffs :
        \E sit \in (IF ai.victim = NoTarget THEN IdleSituations ELSE EngagedSituations) :
            UpdateAI(TickEnv, [sit EXCEPT !.diff = diff], 500, 500)

\* the engine starts an attack or makes the guardian evade between two updates
AttackStartStep == \E legal \in BOOLEAN : EngineAttackStart(legal)

NextTick ==
    \/ TickStep
    \/ AttackStartStep
    \/ EnterEvadeMode

SpecTick == InitTick /\ [][NextTick]_vars

(***************************************************************************)
(* Properties of the update (SpecTick)                                      *)
(***************************************************************************)
\* the record is as an update left it, not as a call of the engine between two
\* updates left it
ByUpdate(c) == "called" \notin c.acts

\* the distance to the owner when the combat branch of the update reads it
DistanceInCombat(c) ==
    IF "teleport" \in c.acts THEN GetFollowDist(c.archetype) ELSE c.sit.ownerDist
RoutineOf(archetype) ==
    IF archetype = ARCHETYPE_TANK THEN "tank"
    ELSE IF archetype = ARCHETYPE_HEALER THEN "healer" ELSE "dps"

\* C27: in an update of a living guardian with a combat target, if the target is
\* dead, is not a legal attack target, or the guardian is more than 40 from its
\* owner, the guardian drops the target, clears movement and follows the owner, and
\* no archetype routine (no attack, no cast) runs; otherwise exactly the routine
\* of its archetype runs.
C27_DisengageOrRoutine ==
    (ai.inWorld /\ ByUpdate(ai) /\ ai.sit.alive /\ ai.sit.victim)
        => IF \/ ~ai.sit.victimAlive
              \/ ~ai.sit.victimAttackable
              \/ DistanceInCombat(ai) > 40
           THEN /\ "disengage" \in ai.acts
                /\ ai.victim = NoTarget
                /\ ai.motion = "follow"
                /\ ai.acts \cap {"tank", "healer", "dps", "melee", "engage"} = {}
                /\ ai.casts = {} /\ ai.by = {}
           ELSE /\ "disengage" \notin ai.acts
                /\ ai.victim # NoTarget
                /\ ai.acts \cap {"tank", "healer", "dps"} = {RoutineOf(ai.archetype)}
                /\ "melee" \in ai.acts \/ ai.by # {}

\* a tank 45 from its owner dropped a living, attackable target
C27_Witness ==
    /\ ByUpdate(ai)
    /\ ai.archetype = ARCHETYPE_TANK
    /\ ai.sit.victim /\ ai.sit.victimAlive /\ ai.sit.victimAttackable
    /\ ai.sit.ownerDist = 45
    /\ "disengage" \in ai.acts /\ ai.victim = NoTarget /\ ai.motion = "follow"

\* C28: the leash is checked on every update: in any update of a living guardian
\* more than 50 from its owner, the guardian is teleported to a point near the owner
\* in that update.
C28_LeashEveryTick ==
    (ai.inWorld /\ ByUpdate(ai) /\ ai.sit.alive /\ ai.sit.ownerDist > 50)
        => "teleport" \in ai.acts

\* C29: an update in which _updateTimer expires and the owner is not found despawns
\* the guardian and does nothing else (no target taken or dropped, no movement, no
\* cast, no regeneration); an update with the owner in the world never despawns it;
\* the guardian is despawned by its controller in no other update.
C29_DespawnOnlyWithoutOwner ==
    [][(ai' # ai /\ ByUpdate(ai'))
          => LET expired == ai.updateTimer - ai'.sit.diff <= 0
                 unresolved == ~ai'.sit.ownerInWorld
             IN  /\ (ai'.sit.alive /\ expired /\ unresolved)
                        => /\ ~ai'.inWorld
                           /\ ai'.acts = {"despawn"}
                           /\ ai'.casts = {} /\ ai'.by = {}
                           /\ ai'.motion = ai.motion
                           /\ ai'.victim = ai.victim
                           /\ ai'.health = ai'.sit.health
                           /\ ai'.cooldowns = ai.cooldowns
                 /\ ai'.sit.ownerInWorld => ai'.inWorld
                 /\ ~ai'.inWorld => (ai'.sit.alive /\ expired /\ unresolved)]_vars

\* a guardian in combat, whose owner left the world, has despawned itself
C29_Witness ==
    /\ ~ai.inWorld
    /\ ai.acts = {"despawn"}
    /\ ai.sit.victim /\ ~ai.sit.ownerInWorld
    /\ ai.victim # NoTarget

\* C30: when the regeneration timer expires for an idle guardian below its maximum
\* health, health increases by max(1, 6% of the missing health) and never exceeds
\* the maximum; a guardian at full health is unchanged.
C30_RegenOfMissingHealth ==
    "regen" \in ai.acts
        => LET missing == ai.sit.maxHealth - ai.sit.health
           IN  /\ ai.health <= ai.sit.maxHealth
               /\ ai.health = IF missing > 0
                              THEN ai.sit.health + Max(1, (missing * 6) \div 100)
                              ELSE ai.sit.health

(***************************************************************************)
(* Properties of the archetype routines (SpecCast)                          *)
(***************************************************************************)
\* the four casting steps of the healer that end its update
HealerSteps == {"heal", "selfbuff", "allybuff", "debuff"}

\* C24: in an update of a healer with a combat target the steps are tried in the
\* order heal, self buff, ally buff, debuff and the first that casts ends the
\* update: at most one of the four casts, and the basic attack and the offensive
\* ability are attempted only when none of the four cast.
C24_HealerFirstCastEndsTick ==
    [][(/\ ~CastFinished
        /\ \A diff \in ClockSteps : ~ElapseTime(diff)
        /\ "healer" \in ai'.acts)
          => LET heal == DoCastHealingSpells(ai, ai'.env, 500).done
                 selfBuff == DoCastSelfBuffs(ai, ai'.sit, 500).done
                 allyBuff == DoCastAllyBuffs(ai, ai'.env, ai'.sit, 500).done
                 debuff == DoCastDebuffSpells(ai, ai'.sit, 500).done
             IN  /\ Cardinality(ai'.by \cap HealerSteps) <= 1
                 /\ Cardinality(ai'.casts) <= 1
                 /\ ai'.by \cap HealerSteps =
                        IF heal THEN {"heal"}
                        ELSE IF selfBuff THEN {"selfbuff"}
                        ELSE IF allyBuff THEN {"allybuff"}
                        ELSE IF debuff THEN {"debuff"}
                        ELSE {}
                 /\ ("melee" \in ai'.acts) <=> (ai'.by \cap HealerSteps = {})
                 /\ ("offensive" \in ai'.by) => (ai'.by \cap HealerSteps = {})
                 /\ (ai'.by = {}) <=> (ai'.casts = {})]_vars

\* a healer with a heal and a damage spell ready cast the heal on its wounded owner
\* and neither attacked nor cast the damage spell
C24_Witness ==
    /\ ai.archetype = ARCHETYPE_HEALER
    /\ "healer" \in ai.acts
    /\ ai.spells = <<99, 21, 23, 0, 0, 0, 0, 0>>
    /\ ai.by = {"heal"} /\ ai.casts = {21}
    /\ "melee" \notin ai.acts
    /\ ai.cooldowns[23].remaining = 0

(***************************************************************************)
(* The scan of an idle guardian for a unit to attack, the heal of an idle   *)
(* healer and the threat a tank adds, under changes of who attacks whom     *)
(***************************************************************************)
\* the times between two updates: the scan timer expires in the second of two
\* short updates and in every long one
ScanDiffs == {250, 2000}

\* the guardian is in slot 0 and, when it is a tank, its slot says so
ScanArch == {<<ARCHETYPE_TANK, ARCHETYPE_HEALER, ARCHETYPE_DPS, ARCHETYPE_DPS>>,
             <<ARCHETYPE_TANK, ARCHETYPE_DPS, ARCHETYPE_HEALER, ARCHETYPE_HEALER>>}

\* who attacks the owner, the other guardians and the guardian itself
ScanSituations ==
    { NoSituation,
      [NoSituation EXCEPT !.helper = "legal"],
      [NoSituation EXCEPT !.helper = "legal", !.ownerVictim = "legal",
                          !.selfAttackers = <<"legal">>],
      [NoSituation EXCEPT !.helper = "illegal", !.ownerVictim = "legal",
                          !.allyAttackers = <<<<>>, <<"legal">>, <<>>, <<>>>>],
      [NoSituation EXCEPT !.helper = "illegal", !.ownerVictim = "illegal",
                          !.allyAttackers = <<<<"legal">>, <<"dead", "legal">>, <<>>, <<"legal">>>>,
                          !.selfAttackers = <<"legal">>],
      [NoSituation EXCEPT !.allyAttackers = <<<<>>, <<"legal">>, <<"illegal", "legal">>, <<>>>>],
      [NoSituation EXCEPT !.ownerVictim = "illegal",
                          !.selfAttackers = <<"illegal", "dead", "legal">>],
      [NoSituation EXCEPT !.helper = "illegal", !.ownerVictim = "illegal",
                          !.allyAttackers = <<<<>>, <<"illegal">>, <<"dead">>, <<>>>>,
                          !.selfAttackers = <<"dead", "illegal">>] }

\* the owner and the guardian of slot 1 in several states of health
ScanEnvs ==
    { Env("alive", 70, 90, "fine", "fine"), Env("alive", 40, 90, "fine", "fine"),
      Env("dead", 0, 90, "fine", "fine"), Env("alive", 70, 30, "hurt", "fine") }

\* what an idle guardian may find
IdleInputs ==
    {<<TickEnv, sit>> : sit \in ScanSituations}
    \cup {<<env, NoSituation>> : env \in ScanEnvs}
    \cup {<<Env("alive", 90, 90, "dead", "fine"),
            [NoSituation EXCEPT !.allyAttackers = <<<<>>, <<"legal">>, <<"illegal", "legal">>, <<>>>>]>>}

\* what a guardian with a combat target may find: the units of its threat list
\* attack nobody, the owner, the guardian itself, the guardians of slots 1 and 2,
\* or somebody else
EngagedInputs ==
    {<<TickEnv, [NoSituation EXCEPT !.victim = TRUE, !.allyArch = arch,
                    !.threatList = <<"owner", "ally0", "ally1", "ally2", "other", "none">>]>> :
        arch \in ScanArch}
    \cup {<<Env("alive", 90, 90, "fine", "inactive"),
            [NoSituation EXCEPT !.victim = TRUE, !.allyArch = arch,
                !.threatList = <<"ally0", "ally2", "owner">>]>> : arch \in ScanArch}
    \cup {<<TickEnv, [NoSituation EXCEPT !.victim = TRUE, !.victimAlive = FALSE]>>}

InitScan ==
    /\ config = [enabled |-> TRUE, maxSlots |-> 4, healthPct |-> 100]
    /\ phase = "offline"
    /\ slots = [i \in Slots |-> EmptySlot]
    /\ db = [i \in Slots |-> NoRow]
    /\ world = [g \in Guids |-> NoCreature]
    /\ nextGuid = 1
    /\ last = Report("init", -1, "ok")
    /\ targetInWorld = TRUE
    /\ ai \in {Controller(a, <<24, 21, 0, 0, 0, 0, 0, 0>>) :
                  a \in {ARCHETYPE_DPS, ARCHETYPE_TANK, ARCHETYPE_HEALER}}

ScanStep ==
    \E diff \in ScanDiffs :
        \E in \in (IF ai.victim = NoTarget THEN IdleInputs ELSE EngagedInputs) :
            UpdateAI(in[1], [in[2] EXCEPT !.diff = diff], 500, 500)

NextScan ==
    \/ ScanStep
    \/ ElapseTime(10000)
    \/ CastFinished

SpecScan == InitScan /\ [][NextScan]_vars

(***************************************************************************)
(* Properties of the scan, of the idle heal and of the tank (SpecScan)      *)
(***************************************************************************)
\* the step is an update of the controller, not the clock or the end of a cast
IsUpdate == ~CastFinished /\ ~ElapseTime(10000)

\* the guardian of slot i is one a hostile can be attacking or the scan can defend
OtherGuardian(env, i) ==
    LET s == AllySlot(env.allies[i + 1])
    IN  s.active /\ ~s.me /\ s.resolves /\ s.alive

\* C21: in the threat step of a tank with a combat target, a unit of the threat
\* list gets added threat if and only if it attacks the owner or an active
\* healer-archetype guardian of the same owner; a unit attacking the tank itself
\* gets none.
C21_TankBonusForOwnerAndHealers ==
    "tank" \in ai.acts
        => /\ DOMAIN ai.threatAdded = DOMAIN ai.sit.threatList
           /\ \A k \in DOMAIN ai.sit.threatList :
                 LET victim == ai.sit.threatList[k]
                     healer == \E i \in Slots :
                                  /\ victim = AllyName(i)
                                  /\ OtherGuardian(ai.env, i)
                                  /\ ai.sit.allyArch[i + 1] = ARCHETYPE_HEALER
                     own == \E i \in Slots :
                               victim = AllyName(i) /\ ai.env.allies[i + 1] = "me"
                 IN  /\ (ai.threatAdded[k] > 0) <=> (victim = "owner" \/ healer)
                     /\ own => ai.threatAdded[k] = 0

\* a tank added threat to the unit attacking its owner and to the one attacking the
\* healer of slot 1, and none to the one attacking the tank itself
C21_Witness ==
    /\ ai.archetype = ARCHETYPE_TANK /\ "tank" \in ai.acts
    /\ ai.sit.threatList = <<"owner", "ally0", "ally1", "ally2", "other", "none">>
    /\ ai.sit.allyArch[2] = ARCHETYPE_HEALER
    /\ ai.threatAdded = <<50, 0, 80, 0, 0, 0>>

\* the rank of the unit the scan should engage: the owner's attacker, the owner's
\* target, an attacker of another guardian, an attacker of the guardian itself
FirstAvailable(env, sit) ==
    IF sit.helper = "legal" THEN "helper"
    ELSE IF sit.ownerVictim = "legal" THEN "ownerVictim"
    ELSE IF \E i \in Slots : \E k \in DOMAIN sit.allyAttackers[i + 1] :
                OtherGuardian(env, i) /\ sit.allyAttackers[i + 1][k] = "legal"
    THEN "ally"
    ELSE IF \E k \in DOMAIN sit.selfAttackers : sit.selfAttackers[k] = "legal" THEN "self"
    ELSE "none"

\* C25: when the scan timer expires for an idle guardian, the unit engaged is the
\* first that exists and is legally attackable in the order: attacker of the owner
\* (with extra threat when the guardian is a tank), target of the owner, attacker of
\* another active guardian, attacker of the guardian itself; the guardian stays idle
\* only if there is none.
C25_ScanEngagesFirstAvailable ==
    [][(/\ IsUpdate
        /\ ai'.inWorld /\ ai'.sit.alive /\ ~ai'.sit.victim
        /\ ai.combatCheckTimer - ai'.sit.diff <= 0)
          => LET v == ai'.victim
             IN  /\ v.src = FirstAvailable(ai'.env, ai'.sit)
                 /\ (v = NoTarget) <=> (FirstAvailable(ai'.env, ai'.sit) = "none")
                 /\ v.src = "ally"
                       => /\ OtherGuardian(ai'.env, v.slot)
                          /\ ai'.sit.allyAttackers[v.slot + 1][v.idx] = "legal"
                 /\ v.src = "self" => ai'.sit.selfAttackers[v.idx] = "legal"
                 /\ (v.src = "helper" /\ ai.archetype = ARCHETYPE_TANK) => ai'.scanThreat > 0
                 /\ v # NoTarget => ai'.motion = "chase"]_vars

\* with the owner's attacker and target not attackable and the guardian of slot 1
\* attacked by a dead and by a living unit, the guardian engaged the living one
\* although a unit attacks the guardian itself
C25_Witness ==
    /\ ai.sit.helper = "illegal" /\ ai.sit.ownerVictim = "illegal"
    /\ ai.sit.selfAttackers = <<"legal">>
    /\ ai.victim = [src |-> "ally", slot |-> 1, idx |-> 2]

\* the controller has a heal that is not on cooldown
HasHealReady(c) ==
    \E i \in DOMAIN c.spells :
        /\ c.spells[i] # 0
        /\ SpellTraits(c.spells[i]).exists
        /\ SpellTraits(c.spells[i]).positive /\ SpellTraits(c.spells[i]).heal
        /\ ~HasSpellCooldown(c.cooldowns, c.spells[i])

\* C26: when the scan of an idle healer finds no unit to attack and the owner is
\* alive below 80% of health, the healer casts a heal on the owner if it has a heal
\* off cooldown, and it has no combat target afterwards.
C26_IdleHealerHealsOwnerBelow80 ==
    [][(/\ IsUpdate
        /\ ai'.inWorld /\ ai'.sit.alive /\ ~ai'.sit.victim
        /\ ai.combatCheckTimer - ai'.sit.diff <= 0
        /\ ai.archetype = ARCHETYPE_HEALER
        /\ FirstAvailable(ai'.env, ai'.sit) = "none"
        /\ ai'.env.owner = "alive" /\ ai'.env.ownerPct < 80
        /\ HasHealReady(ai) /\ ~ai.casting)
          => /\ \E sp \in ai'.casts : SpellTraits(sp).heal
             /\ ai'.target = "owner"
             /\ ai'.victim = NoTarget]_vars

(***************************************************************************)
(* Properties of the cooldown committed and of the ability chosen (SpecCast) *)
(***************************************************************************)
\* the largest of the three recovery times of the catalog
CatalogCooldown(info) ==
    Max(info.RecoveryTime, Max(info.CategoryRecoveryTime, info.StartRecoveryTime))

\* C31: the cooldown committed by a cast is at least 10000 ms for a healing cast
\* whatever the catalog reports; for any other cast it is the largest of base
\* cooldown, category cooldown and start-recovery time, 2000 ms when that is 0,
\* plus a jitter between 500 and 1500 ms.
C31_CommittedCooldown ==
    \A sp \in ai.casts :
        LET info == SpellTraits(sp)
            committed == ai.cooldowns[sp].committed
            base == IF CatalogCooldown(info) = 0 THEN 2000 ELSE CatalogCooldown(info)
        IN  IF info.positive /\ info.heal
            THEN committed >= 10000
            ELSE committed - base \in 500 .. 1500

\* the heal with a cooldown of 12000 ms of its own was committed for that plus the
\* jitter, after the buff with a category cooldown of 3000 ms for that plus the jitter
C31_Witness ==
    /\ 22 \in ai.casts
    /\ ai.cooldowns[22].committed \in {12500, 13500}
    /\ ai.cooldowns[25].committed \in {3500, 4500}

\* the yardstick of C32, from its statement and not from the code: the entries of
\* the ability array the statement lets a step cast, those not empty, known to the
\* catalog, off cooldown, usable in combat, of the category of the step, needed by
\* its target and within range of it. (The steps of the code are DoCastOffensiveSpells
\* and the other DoCast operators above; of them only DoCastOffensiveSpells tests
\* CanBeUsedInCombat.)
UsableBy(c, env, sit, step) ==
    {i \in DOMAIN c.spells :
        LET info == SpellTraits(c.spells[i])
        IN  /\ c.spells[i] # 0 /\ info.exists
            /\ ~HasSpellCooldown(c.cooldowns, c.spells[i])
            /\ info.combat
            /\ CASE step = "offensive" ->
                       /\ ~info.positive
                       /\ info.ranged => sit.inRange
                       /\ ~(info.periodic /\ c.spells[i] \in sit.targetAuras)
                 [] step = "heal" -> info.positive /\ info.heal /\ HealTarget(env) # "none"
                 [] step = "selfbuff" ->
                       info.positive /\ ~info.heal /\ c.spells[i] \notin sit.selfAuras
                 [] step = "allybuff" ->
                       /\ info.positive /\ ~info.heal /\ info.aura
                       /\ c.spells[i] \notin sit.allyAuras
                 [] step = "debuff" ->
                       /\ ~info.positive /\ ~info.damage /\ info.aura
                       /\ c.spells[i] \notin sit.targetAuras
                       /\ info.ranged => sit.inRange
                 [] OTHER -> FALSE}

\* C32: the ability a step casts is the lowest-index entry of the ability array
\* that is not empty, off cooldown, usable in combat, of the step's category and
\* within range of its target; a step casts at most one ability per update.
C32_StepCastsFirstUsable ==
    [][(/\ ~CastFinished
        /\ \A diff \in ClockSteps : ~ElapseTime(diff)
        /\ ai'.sit.victim)
          => /\ Cardinality(ai'.casts) <= Cardinality(ai'.by)
             /\ \A step \in ai'.by : \A sp \in ai'.casts :
                   Cardinality(ai'.by) = 1
                       => LET usable == UsableBy(ai, ai'.env, ai'.sit, step)
                          IN  usable # {} /\ sp = ai.spells[FirstIndex(usable)]]_vars


(***************************************************************************)
(* Guardians of one owner updating while the owner's other guardians are    *)
(* dismissed, released, teleported away or despawn themselves (SpecCoop)     *)
(***************************************************************************)
\* what the scans of the guardian of slot me read of slot i: IsActive(), the GUID
\* compared with me->GetGUID(), ObjectAccessor::GetCreature, IsAlive(), GetHealthPct()
SlotKind(sl, w, me, i) ==
    IF ~IsActive(sl[i]) THEN "inactive"
    ELSE IF i = me THEN "me"
    ELSE IF ~Resolves(w, sl[i].guardianGuid) THEN "gone"
    ELSE IF ~w[sl[i].guardianGuid].alive THEN "dead"
    ELSE IF GetHealthPct(w[sl[i].guardianGuid]) < 50 THEN "hurt"
    ELSE "fine"

\* the owner's registry and the world as the guardian of slot me reads them
EnvOf(sl, w, me, owner) ==
    [owner |-> owner, ownerPct |-> 90,
     selfPct |-> IF Resolves(w, sl[me].guardianGuid)
                 THEN GetHealthPct(w[sl[me].guardianGuid]) ELSE 0,
     allies |-> [k \in 1 .. MAX_GUARDIAN_SLOTS |-> SlotKind(sl, w, me, k - 1)]]

\* whom a hostile unit can have as its victim among the owner's guardians: one
\* that is in the world and alive under the GUID of its slot
Attackable(sl, w, i) ==
    IsActive(sl[i]) /\ Resolves(w, sl[i].guardianGuid) /\ w[sl[i].guardianGuid].alive

\* every guardian of the owner that can be attacked has one attacker, the threat
\* list of an engaged guardian holds the attackers of all of them, and the
\* guardian updating, that of slot me, has its own buff on, is dist away from the
\* other guardians and has the health and the mana of its instance
SituationOf(sl, w, me, engaged, dist) ==
    [NoSituation EXCEPT
        !.victim = engaged, !.selfAuras = {25},
        !.health = w[sl[me].guardianGuid].health,
        !.maxHealth = w[sl[me].guardianGuid].maxHealth,
        !.mana = ManaOf(w[sl[me].guardianGuid]),
        !.maxMana = MaxManaOf(w[sl[me].guardianGuid]),
        !.allyDist = [k \in 1 .. MAX_GUARDIAN_SLOTS |-> dist],
        !.allyArch = [k \in 1 .. MAX_GUARDIAN_SLOTS |-> sl[k - 1].archetype],
        !.allyAttackers = [k \in 1 .. MAX_GUARDIAN_SLOTS |-> <<"legal">>],
        !.threatList = [k \in 1 .. MAX_GUARDIAN_SLOTS |->
                           IF Attackable(sl, w, k - 1) THEN AllyName(k - 1) ELSE "other"]]

\* UpdateAI of the guardian of slot me, every timer of it expired and every
\* ability of it ready, idle or with a combat target; the health and the mana the
\* regeneration leaves are those of the instance
UpdateGuardian(me, owner, engaged, dist) ==
    /\ phase = "world"
    /\ Attackable(slots, world, me)
    /\ LET id == slots[me].guardianGuid
           g == world[id]
           c == [Controller(g.aiArchetype, g.aiSpells)
                    EXCEPT !.victim = IF engaged THEN CurrentTarget ELSE NoTarget]
           after == Tick(c, EnvOf(slots, world, me, owner),
                         SituationOf(slots, world, me, engaged, dist), 500, 500)
       IN  /\ ai' = after
           /\ world' = [world EXCEPT
                           ![id].health = after.health,
                           ![id].power = IF g.powerType = POWER_MANA THEN after.mana ELSE @]
    /\ UNCHANGED <<config, phase, slots, db, nextGuid, last, targetInWorld>>

\* the owner captures two creatures; the guardian of slot 0 is made a tank or a
\* healer and the guardian of slot 1 a healer; either guardian is hit
CaptureCasterStep == ~IsOccupied(slots[1]) /\ Capture(GoodTarget(3, PlayerLevel, 0), TRUE, TRUE)
RoleStep ==
    \E in \in {<<0, ARCHETYPE_TANK>>, <<0, ARCHETYPE_HEALER>>, <<1, ARCHETYPE_HEALER>>} :
        ArchetypeSelect(slots[in[1]].guardianGuid, GUARDIAN_ACTION_BASE + in[1] * 10 + in[2])
HurtStep == \E i \in {0, 1} : IsActive(slots[i]) /\ GuardianDamaged(slots[i].guardianGuid)
SelfDespawnStep == \E g \in Guids : UpdateAIOwnerCheck(g, FALSE, FALSE)
CrossMapStep == OnPlayerBeforeTeleport(FALSE)
MapChangedSomeStep ==
    \E okSet \in {RespawnWanted(MAX_GUARDIAN_SLOTS, slots, FALSE),
                  RespawnWanted(MAX_GUARDIAN_SLOTS, slots, FALSE) \ {1}} :
        OnPlayerMapChanged(okSet)
\* how far the updating guardian is from the others: beside them, or 30 yards away
AllyDistances == {5, 30}
\* the guardian of slot 0 updates
UpdateGuardianStep ==
    \E owner \in {"alive", "dead"}, engaged \in BOOLEAN, dist \in AllyDistances :
        UpdateGuardian(0, owner, engaged, dist)

\* the handlers of the owner and the hits come first, the updates of the guardian
\* of slot 0 follow: an update reads the registry and the world, never the
\* controller record of an earlier update
NoUpdateYet == ai = NoController

NextCoop ==
    \/ NoUpdateYet /\ LoginAllStep
    \/ NoUpdateYet /\ CaptureCasterStep
    \/ NoUpdateYet /\ RoleStep
    \/ NoUpdateYet /\ HurtStep
    \/ NoUpdateYet /\ DismissSelectedStep
    \/ NoUpdateYet /\ MenuStep
    \/ NoUpdateYet /\ CrossMapStep
    \/ NoUpdateYet /\ MapChangedSomeStep
    \/ NoUpdateYet /\ SelfDespawnStep
    \/ UpdateGuardianStep

SpecCoop == Init /\ [][NextCoop]_vars

\* the slots the last update found empty, inactive or without a live instance
SkippedSlots == {i \in Slots : ai.env.allies[i + 1] \in {"inactive", "gone", "dead"}}

\* the active slots whose handle resolves to an instance
LiveSlots == {i \in Slots : IsActive(slots[i]) /\ Resolves(world, slots[i].guardianGuid)}

\* the controller of every live slot has the slot's archetype and ability array
ControllerMirrorsSlot ==
    \A i \in LiveSlots :
        /\ world[slots[i].guardianGuid].aiArchetype = slots[i].archetype
        /\ world[slots[i].guardianGuid].aiSpells = slots[i].spellSlots

\* C34: the controller of every active slot whose instance exists has the slot's
\* archetype and ability array; a change of archetype writes the slot, the
\* controller and the durable record, the handle and the instance staying as
\* they were, and the selection of the archetype already set changes nothing
C34_ControllerMirrorsSlot ==
    /\ []ControllerMirrorsSlot
    /\ [][ArchetypeStep =>
            \/ /\ last'.result = "ok"
               /\ LET i == last'.slot
                      g == slots[i].guardianGuid
                  IN  /\ slots'[i].archetype # slots[i].archetype
                      /\ slots'[i] = [slots[i] EXCEPT !.archetype = slots'[i].archetype,
                                                      !.savedToDb = TRUE]
                      /\ world' = [world EXCEPT ![g].aiArchetype = slots'[i].archetype]
                      /\ db'[i] = RowOf(slots'[i])
                      /\ nextGuid' = nextGuid
                      /\ \A j \in Slots \ {i} : slots'[j] = slots[j] /\ db'[j] = db[j]
            \/ /\ last'.result # "ok"
               /\ UNCHANGED <<slots, db, world, nextGuid>>]_vars

\* a live guardian taught an ability and given the healer archetype
C34_Witness ==
    /\ last = Report("Archetype", 0, "ok")
    /\ 0 \in LiveSlots
    /\ slots[0].archetype = ARCHETYPE_HEALER
    /\ world[slots[0].guardianGuid].aiArchetype = ARCHETYPE_HEALER
    /\ db[0].archetype = ARCHETYPE_HEALER
    /\ slots[0].spellSlots # PopulateDefaultSpells(slots[0].guardianEntry)


\* C35: a slot whose persisted flag is set equals its durable record in identity,
\* level, archetype, abilities, snapshot and dismissed flag
C35_PersistedMeansWritten ==
    \A i \in Slots :
        slots[i].savedToDb =>
            /\ db[i].present
            /\ StoredFields(LoadRow(EmptySlot, db[i])) = StoredFields(slots[i])


\* the slots whose handle is set and resolves to no instance
StaleSlots == {i \in Slots : IsActive(slots[i]) /\ ~Resolves(world, slots[i].guardianGuid)}

\* C36: a Dismiss, Summon, Release, Teach or Unlearn of a slot whose handle
\* resolves to no instance, and a teleport or a Logout with such a slot, leaves
\* the slot inactive
C36_StaleHandleCleared ==
    [][\A i \in StaleSlots :
          (\/ last'.op \in {"Summon", "Dismiss", "Release", "Teach", "Unlearn"} /\ last'.slot = i
           \/ last'.op \in {"TeleportSameMap", "TeleportCrossMap", "Logout"})
              => ~IsActive(slots'[i])]_vars


\* C37: every active slot is occupied
C37_ActiveIsOccupied ==
    \A i \in Slots : IsActive(slots[i]) => IsOccupied(slots[i])


\* a guardian released while it was out, beside another slot that is active
C37_Witness ==
    /\ last.op = "Release" /\ last.slot \in Slots
    /\ ~IsOccupied(slots[last.slot]) /\ ~IsActive(slots[last.slot])
    /\ nextGuid > MaxSpawns
    /\ \E i \in Slots : IsActive(slots[i]) /\ IsOccupied(slots[i])
    /\ Cardinality({g \in Guids : world[g].inWorld}) = 1


(***************************************************************************)
(* Capture, GM spawn, dismiss, release, death, logout and login under       *)
(* reloads of CreatureCapture.MaxSlots and CreatureCapture.Enable            *)
(* (SpecReload)                                                             *)
(***************************************************************************)
NextReload ==
    \/ MaxSlotsStep
    \/ EnableStep
    \/ CaptureStep
    \/ SpawnStep
    \/ GossipStep
    \/ DismissCommandStep
    \/ LoginStep
    \/ OnPlayerLogout
    \/ DiedStep

SpecReload == Init /\ [][NextReload]_vars

\* an unoccupied slot holds the default value in every field, and the slot a
\* Capture or a GM spawn has just filled is not dismissed, in the registry and in
\* its durable record
FilledSlotNotDismissed ==
    /\ \A i \in Slots : ~IsOccupied(slots[i]) => slots[i] = EmptySlot
    /\ (last.op \in {"Capture", "Spawn"} /\ last.result = "ok") =>
          /\ IsOccupied(slots[last.slot]) /\ ~slots[last.slot].dismissed
          /\ db[last.slot].present /\ db[last.slot].dismissed = 0

\* the step is a Login
IsLogin == phase = "offline" /\ phase' = "world"

\* the durable record of slot i says occupied and not dismissed
RecordWanted(i) == db[i].present /\ db[i].entry # 0 /\ db[i].dismissed = 0

\* C38 as stated: an unoccupied slot holds the default value in every field; so
\* the slot a Capture or a GM spawn has just filled is not dismissed, in the
\* registry and in its durable record, and the next Login respawns every slot
\* whose record is not dismissed
C38_RespawnedAtNextLogin ==
    /\ []FilledSlotNotDismissed
    /\ [][IsLogin => \A i \in Slots : RecordWanted(i) => IsActive(slots'[i])]_vars

\* C38: an unoccupied slot holds the default value in every field; so the slot a
\* Capture or a GM spawn has just filled is not dismissed, in the registry and in
\* its durable record. A Login makes active only slots whose record is not
\* dismissed, below maxSlots and with the module enabled, each with an instance
\* of the recorded entry, and all of those when every spawn succeeds; a slot
\* whose record is not dismissed and that the Login does not respawn keeps its
\* record, and with the module enabled it is loaded occupied and not dismissed;
\* with the module disabled the Login loads no slot.
C38_UnoccupiedIsDefault ==
    /\ []FilledSlotNotDismissed
    /\ [][IsLogin =>
            /\ db' = db
            /\ ~config.enabled => slots' = [i \in Slots |-> EmptySlot]
            /\ \A i \in Slots :
                  /\ IsActive(slots'[i]) =>
                        /\ config.enabled /\ i < config.maxSlots /\ RecordWanted(i)
                        /\ Resolves(world', slots'[i].guardianGuid)
                        /\ ~Resolves(world, slots'[i].guardianGuid)
                        /\ world'[slots'[i].guardianGuid].entry = db[i].entry
                  /\ (LoginAllStep /\ config.enabled /\ i < config.maxSlots /\ RecordWanted(i))
                        => IsActive(slots'[i])
                  /\ (config.enabled /\ RecordWanted(i) /\ ~IsActive(slots'[i]))
                        => (IsOccupied(slots'[i]) /\ ~slots'[i].dismissed)]_vars

\* the guardian captured into slot 0 is out again after the Logout and the Login
\* that followed the Capture, its record still not dismissed
C38_Witness ==
    /\ last = Report("Login", -1, "ok")
    /\ config.enabled
    /\ IsActive(slots[0]) /\ slots[0].guardianGuid > 1
    /\ ~slots[0].dismissed
    /\ db[0].present /\ db[0].dismissed = 0
    /\ world[slots[0].guardianGuid].alive


(***************************************************************************)
(* Sessions: guardians captured, taught, given an archetype and dismissed     *)
(* between the logins and logouts of their owner (SpecSession)               *)
(***************************************************************************)
\* the slot of a guardian of entry 1 as a Capture fills it and a Dismiss or a
\* Logout stores it
EarlierSlot(dismissed) ==
    [EmptySlot EXCEPT !.guardianEntry = 1, !.guardianLevel = PlayerLevel,
                      !.guardianHealth = TemplateMaxHealth(1),
                      !.guardianPowerType = TemplatePowerType(1),
                      !.guardianPower = TemplateSpawnPower(1),
                      !.spellSlots = PopulateDefaultSpells(1),
                      !.displayId = TemplateDisplayId(1),
                      !.dismissed = dismissed, !.savedToDb = TRUE]

\* the durable records an earlier session left: none, or that of a dismissed
\* guardian in slot 1, slot 0 having been released
EarlierRecords ==
    { [i \in Slots |-> NoRow],
      [i \in Slots |-> IF i = 1 THEN RowOf(EarlierSlot(TRUE)) ELSE NoRow] }

InitSession ==
    /\ config = [enabled |-> TRUE, maxSlots |-> 4, healthPct |-> 100]
    /\ phase = "offline"
    /\ slots = [i \in Slots |-> EmptySlot]
    /\ db \in EarlierRecords
    /\ world = [g \in Guids |-> NoCreature]
    /\ nextGuid = 1
    /\ last = Report("init", -1, "ok")
    /\ targetInWorld = TRUE
    /\ ai = NoController

NextSession ==
    \/ LoginStep
    \/ OnPlayerLogout
    \/ MaxSlotsStep
    \/ EnableStep
    \/ CaptureGoodStep
    \/ TeachStep
    \/ ArchetypeStep
    \/ DismissSelectedStep

SpecSession == InitSession /\ [][NextSession]_vars

\* the archetype, the ability array and the dismissed flag of every slot stay
ResidentsKept ==
    \A i \in Slots :
        /\ IsOccupied(slots'[i]) = IsOccupied(slots[i])
        /\ slots'[i].dismissed = slots[i].dismissed
        /\ slots'[i].archetype = slots[i].archetype
        /\ slots'[i].spellSlots = slots[i].spellSlots

\* C39 as stated: a Logout leaves no slot active and changes no dismissed flag,
\* archetype or ability array; the Login after it leaves
\* active exactly the slots below maxSlots that are occupied and not dismissed,
\* their controllers holding the archetype and the abilities of the slot, and
\* leaves the dismissed ones stored
C39_LoginAlwaysRestores ==
    [][/\ (phase # "offline" /\ phase' = "offline") =>
             /\ ResidentsKept
             /\ \A i \in Slots : ~IsActive(slots'[i])
       /\ (phase = "offline" /\ phase' = "world") =>
             /\ ResidentsKept
             /\ \A i \in Slots :
                   /\ IsActive(slots'[i]) <=>
                         (i < config.maxSlots /\ IsOccupied(slots[i]) /\ ~slots[i].dismissed)
                   /\ IsActive(slots'[i]) =>
                         /\ Resolves(world', slots'[i].guardianGuid)
                         /\ world'[slots'[i].guardianGuid].aiArchetype = slots[i].archetype
                         /\ world'[slots'[i].guardianGuid].aiSpells = slots[i].spellSlots]_vars

\* the registry holds every durable record, as it does in a session whose Login
\* loaded them
RegistryHoldsRecords == \A i \in Slots : db[i].present => IsOccupied(slots[i])

\* C39: a Logout leaves no slot active and changes no dismissed flag, archetype or
\* ability array; the Login after it, with the module enabled and the registry
\* having held every durable record at the Logout, changes no dismissed flag,
\* archetype or ability array either and makes active only slots below maxSlots
\* that were occupied and not dismissed, their controllers holding the archetype
\* and the abilities of the slot: all of them when every spawn succeeds, while a
\* slot whose spawn fails stays stored and not dismissed; the dismissed ones stay
\* stored; a Login with the module disabled loads no slot and spawns nothing, the
\* durable records staying
C39_LogoutLoginKeepsResidents ==
    [][/\ (phase # "offline" /\ phase' = "offline") =>
             /\ ResidentsKept
             /\ \A i \in Slots : ~IsActive(slots'[i])
       /\ (phase = "offline" /\ phase' = "world" /\ config.enabled /\ RegistryHoldsRecords) =>
             /\ ResidentsKept
             /\ \A i \in Slots :
                   /\ IsActive(slots'[i]) =>
                         /\ i < config.maxSlots /\ IsOccupied(slots[i]) /\ ~slots[i].dismissed
                         /\ Resolves(world', slots'[i].guardianGuid)
                         /\ ~Resolves(world, slots'[i].guardianGuid)
                         /\ world'[slots'[i].guardianGuid].aiArchetype = slots[i].archetype
                         /\ world'[slots'[i].guardianGuid].aiSpells = slots[i].spellSlots
                   /\ (LoginAllStep /\ i < config.maxSlots /\ IsOccupied(slots[i])
                          /\ ~slots[i].dismissed) => IsActive(slots'[i])
       /\ (phase = "offline" /\ phase' = "world" /\ ~config.enabled) =>
             /\ slots' = [i \in Slots |-> EmptySlot]
             /\ UNCHANGED <<world, db, nextGuid>>]_vars

\* after a Logout and a Login: the guardian of slot 0, taught an ability and made a
\* healer before the Logout, is out again as a healer with that ability, beside the
\* dismissed guardian of slot 1, which stays stored
C39_Witness ==
    /\ last.op = "Login"
    /\ IsActive(slots[0]) /\ slots[0].guardianGuid = MaxSpawns
    /\ slots[0].archetype = ARCHETYPE_HEALER
    /\ slots[0].spellSlots # PopulateDefaultSpells(slots[0].guardianEntry)
    /\ world[MaxSpawns].aiArchetype = ARCHETYPE_HEALER
    /\ IsOccupied(slots[1]) /\ slots[1].dismissed /\ ~IsActive(slots[1])


\* where .capture dismiss ends for the guardian of the active slot i: the owner
\* can select it only while it is in the world, alive or dead
AfterDismissCommand(i) ==
    IF ~Resolves(world, slots[i].guardianGuid) THEN <<slots, world, db>>
    ELSE LET s1 == SnapshotGuardianSlot(slots[i], world)
             s2 == [DismissGuardianSlot(s1) EXCEPT !.dismissed = TRUE]
         IN  <<[slots EXCEPT ![i] = SaveFlag(s2)],
               Despawn(world, slots[i].guardianGuid),
               SaveRow(db, s2, i)>>

\* C40: the command and the menu dismiss agree: each of them, on an active slot,
\* ends with the slots, the instances in the world and the durable records that
\* the command path gives
C40_DismissPathsAgree ==
    [][\A i \in Slots :
          (/\ IsActive(slots[i])
           /\ last'.op \in {"DismissCmd", "Dismiss"} /\ last'.slot = i
           /\ <<slots', world', db'>> # <<slots, world, db>>)
              => <<slots', world', db'>> = AfterDismissCommand(i)]_vars

====
